---- MODULE Spec2Model ----
(***************************************************************************)
(* Model of the integrated document tampering detector                    *)
(* (src/docufraud/integrated_tampering_detector.py).                       *)
(*                                                                         *)
(*   Spec        analyze_document as it runs (lines 651-722)               *)
(*   SpecPages   the page loop from the assessor call on: reply handling   *)
(*               (lines 613-649), fusion (_create_integrated_verdict) and  *)
(*               summary (_create_summary) on whole documents              *)
(*   SpecFusion  the fusion and the summary of one page, over every        *)
(*               forensic score and confidence                             *)
(*   SpecRegions the region extraction (lines 171-244) on noise maps       *)
(*   SpecForensic one detector analysing rasters one after the other       *)
(*   SpecJobs    two jobs at once, sharing the directories of the page     *)
(*               images and of the diagnostic images                       *)
(*   SpecCopyMove the copy-move detection (lines 246-285) on lists of      *)
(*               descriptor matches                                        *)
(*   SpecStatus  one job of src/api-server/app.py: the worker              *)
(*               run_tampering_detection statement by statement, and       *)
(*               get_analysis_status polling it                            *)
(*                                                                         *)
(* Scores are fixed-point integers in units of 1/10000 (0.45 is 4500).     *)
(* Forensic scores are multiples of 1/100 and confidences are integers     *)
(* 0..100, so every halving below is exact.  On that grid the exact        *)
(* arithmetic takes the same branch as the code's float arithmetic at      *)
(* every comparison.                                                       *)
(***************************************************************************)
EXTENDS Integers, Sequences, FiniteSets, TLC

VARIABLES pc, image_paths, idx, forensic_results, llm_results, results,
          final_report, raised, job, steps,
          noise_map, tampered_regions, is_scanned_document, analyses,
          matches, suspicious_regions,
          clock, threads, temp_dir, forensic_dir,
          worker, saved, response

\* one run of run_tampering_detection: the job, analyze_document's locals,
\* and the order in which the steps of the page loop were completed
document_vars == <<pc, image_paths, idx, forensic_results, llm_results, results,
                   final_report, raised, job, steps>>

\* a ForensicAnalyzer: the input and output of the region extraction, the
\* instance's flag and the results it has returned, the input and output of
\* the copy-move detection
forensic_vars == <<noise_map, tampered_regions, is_scanned_document, analyses,
                   matches, suspicious_regions>>

\* the jobs' threads, the wall clock and the two directories they share
thread_vars == <<clock, threads, temp_dir, forensic_dir>>

\* the statement run_tampering_detection is at, the job as last written by
\* save_job_to_disk, and the response of the last status poll
poll_vars == <<worker, saved, response>>

vars == <<document_vars, forensic_vars, thread_vars, poll_vars>>

(***************************************************************************)
(* Bounds                                                                  *)
(***************************************************************************)
MaxPages == 2

(***************************************************************************)
(* Python values as they come out of json.loads: a tag and a payload       *)
(* (the number, or the length of a string / array).  A key the reply does  *)
(* not carry is Absent.                                                    *)
(***************************************************************************)
Absent == [t |-> "absent", v |-> 0]
JNull == [t |-> "null", v |-> 0]
JBool(b) == [t |-> "bool", v |-> IF b THEN 1 ELSE 0]
JInt(n) == [t |-> "int", v |-> n]
JStr(n) == [t |-> "str", v |-> n]
JArr(n) == [t |-> "array", v |-> n]

\* dict.get(key, default)
DictGet(d, key, default) == IF d[key].t = "absent" THEN default ELSE d[key]

\* bool(x): None, False, 0, "" and [] are falsy
Truthy(x) == x.t # "null" /\ x.v # 0

\* x and y: x itself when x is falsy, else y
PyAnd(x, y) == IF Truthy(x) THEN y ELSE x

\* b == x for a bool b: True == 1 and False == 0 hold, None / str / list
\* are equal to neither True nor False
PyEqBool(b, x) == x.t \in {"bool", "int"} /\ x.v = (IF b THEN 1 ELSE 0)

\* x / 100.0 and len(x) raise TypeError on these operands
IsNumber(x) == x.t \in {"bool", "int"}
HasLen(x) == x.t \in {"str", "array"}

Min(a, b) == IF a < b THEN a ELSE b

(***************************************************************************)
(* Score aggregation of perform_forensic_analysis (lines 518-546).         *)
(* ela_hot is the hot-pixel ratio in units of 1/1000.                      *)
(***************************************************************************)
ForensicThreshold == 4500
CopyMoveMinMatches == 10
ElaHotMin == 20
RegionWeight == 3000
RegionCap == 6000
CopyMoveWeight == 2000
ElaWeight == 1500
ScoreCap == 10000

\* mutant of forensic_score_of: exactly 10 copy-move matches count
forensic_score_from_ten(num_regions, copy_move, ela_hot) ==
    Min((IF num_regions > 0 THEN Min(num_regions * RegionWeight, RegionCap) ELSE 0)
        + (IF copy_move >= CopyMoveMinMatches THEN CopyMoveWeight ELSE 0)
        + (IF ela_hot > ElaHotMin THEN ElaWeight ELSE 0),
        ScoreCap)

\* mutant of forensic_score_of: the regions' share is not capped at 0.6
forensic_score_regions_uncapped(num_regions, copy_move, ela_hot) ==
    Min((IF num_regions > 0 THEN num_regions * RegionWeight ELSE 0)
        + (IF copy_move > CopyMoveMinMatches THEN CopyMoveWeight ELSE 0)
        + (IF ela_hot > ElaHotMin THEN ElaWeight ELSE 0),
        ScoreCap)

forensic_score_of(num_regions, copy_move, ela_hot) ==
    Min((IF num_regions > 0 THEN Min(num_regions * RegionWeight, RegionCap) ELSE 0)
        + (IF copy_move > CopyMoveMinMatches THEN CopyMoveWeight ELSE 0)
        + (IF ela_hot > ElaHotMin THEN ElaWeight ELSE 0),
        ScoreCap)

\* mutant of forensic_verdict_of: a score of exactly 0.45 is LIKELY TAMPERED
forensic_verdict_at_least(score) ==
    IF score >= ForensicThreshold THEN "LIKELY TAMPERED" ELSE "LIKELY ORIGINAL"

forensic_verdict_of(score) ==
    IF score > ForensicThreshold THEN "LIKELY TAMPERED" ELSE "LIKELY ORIGINAL"

ForensicResult(num_regions, copy_move, ela_hot) ==
    LET score == forensic_score_of(num_regions, copy_move, ela_hot)
    IN  [forensic_score |-> score,
         forensic_verdict |-> forensic_verdict_of(score),
         tampered_regions_count |-> num_regions,
         copy_move_matches |-> copy_move,
         ela_hot_pixels_ratio |-> ela_hot]

NoForensic ==
    [forensic_score |-> 0, forensic_verdict |-> "", tampered_regions_count |-> 0,
     copy_move_matches |-> 0, ela_hot_pixels_ratio |-> 0]

(***************************************************************************)
(* The assessor's reply (analyze_with_llm_reasoning, lines 613-649).       *)
(***************************************************************************)
LlmReply(err, td, cs, da) ==
    [error |-> err, tampering_detected |-> td, confidence_score |-> cs,
     detected_anomalies |-> da]

\* the dict of the except branch, lines 645-649
LlmFailure == LlmReply(JStr(1), JNull, JInt(0), Absent)

NoLlm == LlmReply(Absent, Absent, Absent, Absent)

(***************************************************************************)
(* _create_integrated_verdict (lines 724-779).                             *)
(***************************************************************************)
AssessorThreshold == 5000
DisagreeCap == 6000
HighConfidenceMin == 7000
ReviewMin == 3500

NoVerdict ==
    [combined_score |-> 0, verdict |-> "", risk_level |-> "",
     forensic_contribution |-> 0, llm_contribution |-> 0, agreement |-> "",
     forensic_verdict |-> "", llm_verdict |-> ""]

\* line 729: llm.get('confidence_score', 0) / 100.0 raises TypeError unless
\* the value is a number
verdict_raises(llm) == ~IsNumber(DictGet(llm, "confidence_score", JInt(0)))

\* line 733
forensic_says_tampered_of(forensic_score) == forensic_score > ForensicThreshold

\* line 734: llm_tampering and llm_confidence > 0.5
llm_says_tampered_of(llm_tampering, llm_confidence) ==
    PyAnd(llm_tampering, JBool(llm_confidence > AssessorThreshold))

\* mutant of signals_agree: the assessor side compared by its truth value,
\* so that None counts as "not tampered"
signals_agree_by_truth(forensic_says_tampered, llm_says_tampered) ==
    forensic_says_tampered = Truthy(llm_says_tampered)

\* line 737: forensic_says_tampered == llm_says_tampered
signals_agree(forensic_says_tampered, llm_says_tampered) ==
    PyEqBool(forensic_says_tampered, llm_says_tampered)

\* mutant of combined_score_of: the two signals are added, not averaged
combined_score_added(agree, llm_says_tampered, forensic_score, llm_confidence) ==
    IF agree
    THEN IF Truthy(llm_says_tampered)
         THEN forensic_score + llm_confidence
         ELSE (forensic_score + (10000 - llm_confidence)) \div 2
    ELSE Min((forensic_score + llm_confidence) \div 2, DisagreeCap)

\* mutant of combined_score_of: the disagreement average without its cap
combined_score_uncapped(agree, llm_says_tampered, forensic_score, llm_confidence) ==
    IF agree
    THEN IF Truthy(llm_says_tampered)
         THEN (forensic_score + llm_confidence) \div 2
         ELSE ((forensic_score + (10000 - llm_confidence)) \div 2) \div 2
    ELSE (forensic_score + llm_confidence) \div 2

\* lines 739-749
combined_score_of(agree, llm_says_tampered, forensic_score, llm_confidence) ==
    IF agree
    THEN IF Truthy(llm_says_tampered)
         THEN (forensic_score + llm_confidence) \div 2
         ELSE ((forensic_score + (10000 - llm_confidence)) \div 2) \div 2
    ELSE Min((forensic_score + llm_confidence) \div 2, DisagreeCap)

\* mutant of verdict_and_risk: CRITICAL from combined_score >= 0.7
verdict_and_risk_at_least(agreement, forensic_says_tampered, llm_says_tampered, combined_score) ==
    IF agreement = "AGREE" /\ forensic_says_tampered /\ Truthy(llm_says_tampered)
    THEN IF combined_score >= HighConfidenceMin
         THEN <<"TAMPERING DETECTED - HIGH CONFIDENCE", "CRITICAL">>
         ELSE <<"LIKELY TAMPERED", "HIGH">>
    ELSE IF agreement = "DISAGREE"
         THEN <<"INCONCLUSIVE - REQUIRES MANUAL REVIEW", "MEDIUM">>
         ELSE IF combined_score > ReviewMin
              THEN <<"POSSIBLE TAMPERING - REQUIRES REVIEW", "MEDIUM">>
              ELSE <<"NO SIGNIFICANT TAMPERING DETECTED", "LOW">>

\* mutant of verdict_and_risk: no branch for DISAGREE, the score alone
\* decides
verdict_and_risk_no_review(agreement, forensic_says_tampered, llm_says_tampered, combined_score) ==
    IF agreement = "AGREE" /\ forensic_says_tampered /\ Truthy(llm_says_tampered)
    THEN IF combined_score > HighConfidenceMin
         THEN <<"TAMPERING DETECTED - HIGH CONFIDENCE", "CRITICAL">>
         ELSE <<"LIKELY TAMPERED", "HIGH">>
    ELSE IF combined_score > ReviewMin
         THEN <<"POSSIBLE TAMPERING - REQUIRES REVIEW", "MEDIUM">>
         ELSE <<"NO SIGNIFICANT TAMPERING DETECTED", "LOW">>

\* mutant of verdict_and_risk: review from combined_score >= 0.35
verdict_and_risk_review_at_least(agreement, forensic_says_tampered, llm_says_tampered, combined_score) ==
    IF agreement = "AGREE" /\ forensic_says_tampered /\ Truthy(llm_says_tampered)
    THEN IF combined_score > HighConfidenceMin
         THEN <<"TAMPERING DETECTED - HIGH CONFIDENCE", "CRITICAL">>
         ELSE <<"LIKELY TAMPERED", "HIGH">>
    ELSE IF agreement = "DISAGREE"
         THEN <<"INCONCLUSIVE - REQUIRES MANUAL REVIEW", "MEDIUM">>
         ELSE IF combined_score >= ReviewMin
              THEN <<"POSSIBLE TAMPERING - REQUIRES REVIEW", "MEDIUM">>
              ELSE <<"NO SIGNIFICANT TAMPERING DETECTED", "LOW">>

\* lines 752-768: <<verdict, risk>>
verdict_and_risk(agreement, forensic_says_tampered, llm_says_tampered, combined_score) ==
    IF agreement = "AGREE" /\ forensic_says_tampered /\ Truthy(llm_says_tampered)
    THEN IF combined_score > HighConfidenceMin
         THEN <<"TAMPERING DETECTED - HIGH CONFIDENCE", "CRITICAL">>
         ELSE <<"LIKELY TAMPERED", "HIGH">>
    ELSE IF agreement = "DISAGREE"
         THEN <<"INCONCLUSIVE - REQUIRES MANUAL REVIEW", "MEDIUM">>
         ELSE IF combined_score > ReviewMin
              THEN <<"POSSIBLE TAMPERING - REQUIRES REVIEW", "MEDIUM">>
              ELSE <<"NO SIGNIFICANT TAMPERING DETECTED", "LOW">>

\* defined when ~verdict_raises(llm)
create_integrated_verdict(forensic, llm) ==
    LET forensic_score == forensic.forensic_score
        llm_confidence == DictGet(llm, "confidence_score", JInt(0)).v * 100
        llm_tampering == DictGet(llm, "tampering_detected", JBool(FALSE))
        forensic_says_tampered == forensic_says_tampered_of(forensic_score)
        llm_says_tampered == llm_says_tampered_of(llm_tampering, llm_confidence)
        agree == signals_agree(forensic_says_tampered, llm_says_tampered)
        agreement == IF agree THEN "AGREE" ELSE "DISAGREE"
        combined_score ==
            combined_score_of(agree, llm_says_tampered, forensic_score, llm_confidence)
        vr == verdict_and_risk(agreement, forensic_says_tampered,
                               llm_says_tampered, combined_score)
    IN  [combined_score |-> combined_score,
         verdict |-> vr[1],
         risk_level |-> vr[2],
         forensic_contribution |-> forensic_score,
         llm_contribution |-> llm_confidence,
         agreement |-> agreement,
         forensic_verdict |-> IF forensic_says_tampered THEN "TAMPERED" ELSE "ORIGINAL",
         llm_verdict |-> IF Truthy(llm_says_tampered) THEN "TAMPERED" ELSE "ORIGINAL"]

(***************************************************************************)
(* _create_summary (lines 781-822).                                        *)
(***************************************************************************)
IssueScoreMin == 5000
IssueConfidenceMin == 60

RiskOrder == <<"LOW", "MEDIUM", "HIGH", "CRITICAL">>
RiskIndex(x) == CHOOSE i \in 1..Len(RiskOrder) : RiskOrder[i] = x

\* 'INCONCLUSIVE' in verdict: the one verdict text holding that word
IsInconclusive(verdict) == verdict = "INCONCLUSIVE - REQUIRES MANUAL REVIEW"

\* mutant of page_has_issues: the INCONCLUSIVE test left out
page_has_issues_no_review(r) ==
    LET llm_detected == DictGet(r.llm_analysis, "tampering_detected", JBool(FALSE))
    IN  \/ r.integrated_verdict.combined_score > IssueScoreMin
        \/ /\ Truthy(llm_detected)
           /\ DictGet(r.llm_analysis, "confidence_score", JInt(0)).v >= IssueConfidenceMin

\* mutant of page_has_issues: only a combined score above 0.7 counts
page_has_issues_high_only(r) ==
    LET llm_detected == DictGet(r.llm_analysis, "tampering_detected", JBool(FALSE))
    IN  \/ r.integrated_verdict.combined_score > HighConfidenceMin
        \/ IsInconclusive(r.integrated_verdict.verdict)
        \/ /\ Truthy(llm_detected)
           /\ DictGet(r.llm_analysis, "confidence_score", JInt(0)).v >= IssueConfidenceMin

\* lines 785-794
page_has_issues(r) ==
    LET llm_detected == DictGet(r.llm_analysis, "tampering_detected", JBool(FALSE))
    IN  \/ r.integrated_verdict.combined_score > IssueScoreMin
        \/ IsInconclusive(r.integrated_verdict.verdict)
        \/ /\ Truthy(llm_detected)
           /\ DictGet(r.llm_analysis, "confidence_score", JInt(0)).v >= IssueConfidenceMin

\* line 796
tampering_detected_of(rs) == \E i \in 1..Len(rs) : page_has_issues(rs[i])

\* mutant of status_text_of: pages with issues are looked at before
\* INCONCLUSIVE pages
status_text_issues_first(rs) ==
    LET any_inconclusive ==
            \E i \in 1..Len(rs) : IsInconclusive(rs[i].integrated_verdict.verdict)
    IN  IF tampering_detected_of(rs) THEN "TAMPERING DETECTED"
        ELSE IF any_inconclusive THEN "INCONCLUSIVE - MANUAL REVIEW REQUIRED"
        ELSE "NO TAMPERING DETECTED"

\* mutant of status_text_of: without the branch for pages with issues
status_text_inconclusive_only(rs) ==
    LET any_inconclusive ==
            \E i \in 1..Len(rs) : IsInconclusive(rs[i].integrated_verdict.verdict)
    IN  IF any_inconclusive THEN "INCONCLUSIVE - MANUAL REVIEW REQUIRED"
        ELSE "NO TAMPERING DETECTED"

\* lines 799-805
status_text_of(rs) ==
    LET any_inconclusive ==
            \E i \in 1..Len(rs) : IsInconclusive(rs[i].integrated_verdict.verdict)
    IN  IF any_inconclusive THEN "INCONCLUSIVE - MANUAL REVIEW REQUIRED"
        ELSE IF tampering_detected_of(rs) THEN "TAMPERING DETECTED"
        ELSE "NO TAMPERING DETECTED"

\* mutant of max_risk_of: the risk of the last page
max_risk_last(rs) == rs[Len(rs)].integrated_verdict.risk_level

\* lines 807-808: max(..., key=index); the first page of the greatest index
max_risk_of(rs) ==
    LET i == CHOOSE i \in 1..Len(rs) :
                 /\ \A j \in 1..Len(rs) :
                        RiskIndex(rs[j].integrated_verdict.risk_level)
                            <= RiskIndex(rs[i].integrated_verdict.risk_level)
                 /\ \A j \in 1..(i - 1) :
                        RiskIndex(rs[j].integrated_verdict.risk_level)
                            < RiskIndex(rs[i].integrated_verdict.risk_level)
    IN  rs[i].integrated_verdict.risk_level

RECURSIVE SumSeq(_)
SumSeq(xs) == IF Len(xs) = 0 THEN 0 ELSE Head(xs) + SumSeq(Tail(xs))

anomalies_of(r) == DictGet(r.llm_analysis, "detected_anomalies", JArr(0))
forensic_score_in(r) == r.forensic_analysis.forensic_score
confidence_in(r) == DictGet(r.llm_analysis, "confidence_score", JInt(0)).v
anomaly_count(r) == anomalies_of(r).v

\* line 807: max() of an empty sequence raises ValueError;
\* line 811: len() of None or of a number raises TypeError
summary_raises(rs) ==
    IF Len(rs) = 0 THEN "ValueError"
    ELSE IF \E i \in 1..Len(rs) : ~HasLen(anomalies_of(rs[i]))
         THEN "TypeError: object has no len"
    ELSE ""

NoSummary ==
    [tampering_detected |-> FALSE, status_text |-> "", highest_risk_level |-> "",
     pages_analyzed |-> 0, total_anomalies_found |-> 0,
     average_forensic_score |-> 0, average_llm_confidence |-> 0]

\* defined when summary_raises(rs) = ""; the two means are cut to the unit
create_summary(rs) ==
    [tampering_detected |-> tampering_detected_of(rs),
     status_text |-> status_text_of(rs),
     highest_risk_level |-> max_risk_of(rs),
     pages_analyzed |-> Len(rs),
     total_anomalies_found |-> SumSeq([i \in 1..Len(rs) |-> anomaly_count(rs[i])]),
     average_forensic_score |-> SumSeq([i \in 1..Len(rs) |-> forensic_score_in(rs[i])]) \div Len(rs),
     average_llm_confidence |-> SumSeq([i \in 1..Len(rs) |-> confidence_in(rs[i])]) \div Len(rs)]

(***************************************************************************)
(* The request to the assessor (analyze_with_llm_reasoning, lines 567-611).*)
(* The prompt is built by a keyword call of                                *)
(* get_integrated_tampering_detection_prompt (src/prompt_manager.py lines  *)
(* 155-159), whose five parameters are all required.  A keyword the        *)
(* function does not declare, or a parameter left without a value, raises  *)
(* TypeError; the call stands before the try of line 613.                  *)
(***************************************************************************)
prompt_parameters ==
    {"forensic_summary", "ela_hot_pixels", "mean_rgb_std", "mean_local_variance",
     "ssim_score"}

prompt_keywords ==
    {"forensic_summary", "ela_hot_pixels", "tampered_regions_count",
     "copy_move_matches", "noise_threshold"}

call_raises(keywords, parameters) == keywords # parameters

(***************************************************************************)
(* Inputs.  Metrics of a page: <<tampered regions, copy-move matches, ELA  *)
(* hot ratio in 1/1000>>, on both sides of each threshold of the score     *)
(* aggregation.  PageMetrics is the part of ForensicMetrics used where     *)
(* whole documents are built: the scores 0, 0.15, 0.2, 0.3, 0.35, 0.45,    *)
(* 0.5, 0.6, 0.65 and 0.95.  LlmReplies: JSON objects the assessor may     *)
(* return.                                                                 *)
(***************************************************************************)
ForensicMetrics == (0..3) \X {0, 10, 11} \X {0, 20, 21}

PageMetrics ==
    ((0..1) \X {10, 11} \X {20, 21}) \cup { <<2, 10, 20>>, <<2, 11, 21>> }

LlmReplies ==
    { LlmReply(Absent, JBool(TRUE), JInt(90), JArr(2)),
      LlmReply(Absent, JBool(TRUE), JInt(60), JArr(0)),
      LlmReply(Absent, JBool(FALSE), JInt(80), JArr(0)),
      LlmReply(Absent, JBool(FALSE), JInt(0), Absent),
      LlmReply(JStr(1), Absent, Absent, Absent),
      LlmReply(Absent, JStr(3), JInt(90), JArr(2)),
      LlmReply(Absent, JBool(TRUE), JNull, JArr(0)),
      LlmReply(Absent, JBool(TRUE), JStr(2), Absent),
      LlmReply(Absent, JBool(FALSE), JInt(80), JNull) }

\* what the call of lines 614-640 can end in: the call raises (timeout,
\* transport or service error), the content is not JSON, or it is an object
LlmOutcomes ==
    { [kind |-> "call_failed", reply |-> NoLlm], [kind |-> "not_json", reply |-> NoLlm] }
        \cup { [kind |-> "object", reply |-> d] : d \in LlmReplies }

\* lines 613-649: the parsed object, or the dict of the except branch
llm_call_result(outcome) ==
    IF outcome.kind = "object" THEN outcome.reply ELSE LlmFailure

\* the inputs of the fusion taken alone: every forensic score 0.00 .. 1.00,
\* every confidence 0 .. 100 or absent / null / a string, every kind of
\* tampering_detected
FusionScores == { s * 100 : s \in 0..100 }
FusionDetected ==
    { Absent, JNull, JBool(TRUE), JBool(FALSE), JStr(3), JStr(0), JInt(0) }
FusionConfidence == { Absent, JNull, JStr(2) } \cup { JInt(c) : c \in 0..100 }
FusionReplies ==
    { LlmReply(Absent, td, cs, Absent) : td \in FusionDetected, cs \in FusionConfidence }
        \cup { LlmFailure }

NoReport ==
    [error |-> "", total_pages |-> 0, page_analyses |-> <<>>, summary |-> NoSummary]

(***************************************************************************)
(* The job (src/api-server/app.py): AnalysisJob (lines 239-251) and how    *)
(* run_tampering_detection (lines 2084-2167) ends it.                      *)
(***************************************************************************)
NoJobResult == [totalPages |-> 0, summary |-> NoSummary, pageAnalyses |-> 0]

\* completed_at is 0 for None and 1 for a time
AnalysisJob ==
    [status |-> "pending", progress |-> 0, result |-> NoJobResult, error |-> "",
     completed_at |-> 0]

\* mutant of job_outcome: an exception is swallowed and the job completes
\* with an empty result
job_outcome_suppressed(j, exception, report) ==
    IF exception # "" \/ report.error # ""
    THEN [j EXCEPT !.status = "completed", !.progress = 100]
    ELSE [j EXCEPT !.status = "completed", !.progress = 100,
                   !.result = [totalPages |-> report.total_pages,
                               summary |-> report.summary,
                               pageAnalyses |-> Len(report.page_analyses)]]

\* lines 2111-2167: an exception of analyze_document, or the one raised for
\* an 'error' key in its result, is caught by the handler of line 2161
job_outcome(j, exception, report) ==
    IF exception # ""
    THEN [j EXCEPT !.status = "failed", !.error = exception]
    ELSE IF report.error # ""
         THEN [j EXCEPT !.status = "failed", !.progress = 80, !.error = report.error]
         ELSE [j EXCEPT !.status = "completed", !.progress = 100,
                        !.completed_at = 1,
                        !.result = [totalPages |-> report.total_pages,
                                    summary |-> report.summary,
                                    pageAnalyses |-> Len(report.page_analyses)]]

(***************************************************************************)
(* get_analysis_status (app.py lines 1024-1054): the response built from   *)
(* the job in memory.  done is false between the reads of lines 1040-1048  *)
(* and the second read of the status in line 1051.                         *)
(***************************************************************************)
NoResponse ==
    [status |-> "none", progress |-> 0, completed_at |-> 0, error |-> "",
     result |-> NoJobResult, done |-> TRUE]

\* lines 1040-1048
response_of(j) ==
    [status |-> j.status, progress |-> j.progress, completed_at |-> j.completed_at,
     error |-> j.error, result |-> NoJobResult, done |-> FALSE]

\* lines 1051-1052: job.status == 'completed' and job.result
with_result(r, j) ==
    [r EXCEPT !.result = IF j.status = "completed" /\ j.result # NoJobResult
                         THEN j.result ELSE NoJobResult,
              !.done = TRUE]

\* start_tampering_detection (lines 2218-2223): the job is saved as created,
\* then the thread starts; nobody has polled
NoPoll ==
    /\ worker = "pending"
    /\ saved = AnalysisJob
    /\ response = NoResponse

(***************************************************************************)
(* extract_tampered_regions_from_noise (lines 171-244).  The noise map is  *)
(* given by its size, its mean and the connected components that           *)
(* ndimage.label finds in the thresholded and closed map (lines 187-192):  *)
(* each with the corner (x, y) and size (w, h) of its bounding box, its    *)
(* pixel count and the mean of the map over its pixels.  Intensities are   *)
(* in units of 1/100 grey level, confidences in units of 1/10000.          *)
(***************************************************************************)
BaseThreshold == 120
ThresholdCap == 160
MinPixels == 80
BorderMargin == 5
MaxAreaPercent == 15
HighRatio == 17
MediumRatio == 12
MediumRatioMinPixels == 500
ConfidenceFloor == 7000
ConfidenceCap == 10000
WhiteLevel == 25500

Max(a, b) == IF a > b THEN a ELSE b

Component(x, y, w, h, pixel_count, region_mean) ==
    [x |-> x, y |-> y, w |-> w, h |-> h, pixel_count |-> pixel_count,
     region_mean |-> region_mean]

NoiseMap(img_w, img_h, global_mean, components) ==
    [img_w |-> img_w, img_h |-> img_h, global_mean |-> global_mean,
     components |-> components]

\* lines 180-185
noise_threshold_of(global_mean) ==
    Min(IF global_mean > 500
        THEN BaseThreshold + ((global_mean - 500) * 5) \div 100
        ELSE BaseThreshold,
        ThresholdCap)

\* mutant of inside_margin: the bounding box only has to lie on the page
inside_page(c, img_w, img_h) ==
    ~(c.x < 0 \/ c.y < 0 \/ (c.x + c.w) > img_w \/ (c.y + c.h) > img_h)

\* line 208, negated
inside_margin(c, img_w, img_h) ==
    ~(c.x < BorderMargin \/ c.y < BorderMargin
      \/ (c.x + c.w) > (img_w - BorderMargin) \/ (c.y + c.h) > (img_h - BorderMargin))

\* mutant of ratio_accepts: a large region is accepted from a ratio of 10
ratio_accepts_from_ten(c, global_mean) ==
    \/ c.region_mean > HighRatio * global_mean
    \/ /\ c.region_mean > 10 * global_mean
       /\ c.pixel_count >= MediumRatioMinPixels

\* lines 217-222: intensity_ratio = region_mean / (global_mean + 1e-8); on
\* the 1/100 grid the 1e-8 makes a quotient of exactly 17 (or 12) fall short
ratio_accepts(c, global_mean) ==
    \/ c.region_mean > HighRatio * global_mean
    \/ /\ c.region_mean > MediumRatio * global_mean
       /\ c.pixel_count >= MediumRatioMinPixels

\* lines 200-223: the component becomes a region
region_kept(c, img_w, img_h, global_mean, min_pixels) ==
    /\ ~(c.pixel_count < min_pixels)
    /\ inside_margin(c, img_w, img_h)
    /\ ~(100 * c.pixel_count > MaxAreaPercent * img_h * img_w)
    /\ ratio_accepts(c, global_mean)

\* lines 225 and 233
region_confidence(region_mean, global_mean) ==
    Max(Min(((region_mean - global_mean) * 10000) \div (WhiteLevel - global_mean),
            ConfidenceCap),
        ConfidenceFloor)

\* lines 227-235
Region(c, global_mean) ==
    [x |-> c.x, y |-> c.y, width |-> c.w, height |-> c.h,
     area |-> c.pixel_count,
     center |-> <<c.x + c.w \div 2, c.y + c.h \div 2>>,
     intensity |-> c.region_mean,
     intensity_ratio |-> (c.region_mean * 100) \div global_mean,
     confidence |-> region_confidence(c.region_mean, global_mean)]

\* where list.sort(key=intensity, reverse=True) puts r among sorted regions:
\* behind every region of the same or a greater intensity (the sort is stable)
RECURSIVE insert_by_intensity(_, _)
insert_by_intensity(r, sorted) ==
    IF Len(sorted) = 0 THEN <<r>>
    ELSE IF Head(sorted).intensity >= r.intensity
         THEN <<Head(sorted)>> \o insert_by_intensity(r, Tail(sorted))
         ELSE <<r>> \o sorted

\* line 237
RECURSIVE sort_by_intensity(_, _)
sort_by_intensity(rs, sorted) ==
    IF Len(rs) = 0 THEN sorted
    ELSE sort_by_intensity(Tail(rs), insert_by_intensity(Head(rs), sorted))

\* lines 196-235: the regions in the order of the labels
RECURSIVE kept_regions(_, _, _, _, _)
kept_regions(cs, img_w, img_h, global_mean, min_pixels) ==
    IF Len(cs) = 0 THEN <<>>
    ELSE (IF region_kept(Head(cs), img_w, img_h, global_mean, min_pixels)
          THEN <<Region(Head(cs), global_mean)>> ELSE <<>>)
         \o kept_regions(Tail(cs), img_w, img_h, global_mean, min_pixels)

\* the regions and the statistics returned (lines 237-244)
extract_tampered_regions_from_noise(nm, min_pixels) ==
    [regions |-> sort_by_intensity(
                     kept_regions(nm.components, nm.img_w, nm.img_h, nm.global_mean,
                                  min_pixels), <<>>),
     global_mean |-> nm.global_mean,
     threshold |-> noise_threshold_of(nm.global_mean),
     num_features |-> Len(nm.components)]

(***************************************************************************)
(* Inputs of the region extraction: noise maps of 100 x 100 pixels.  The   *)
(* components lie on both sides of every test of lines 200-222: 79 / 80    *)
(* pixels, 499 / 500 pixels, 15% of the page and one pixel more, 4 / 5     *)
(* pixels from the left and top border, ending 5 / 4 pixels from the right *)
(* and bottom border, a mean of 204 against global means of 12 and 17      *)
(* (quotients of exactly 17 and 12) and just above.  A map's mean is never *)
(* less than what its components alone contribute.                         *)
(***************************************************************************)
Components ==
    { Component(x, y, 40, 40, p, 20400) :
        x \in {4, 5, 55, 56}, y \in {4, 5, 55, 56},
        p \in {79, 80, 499, 500, 1500, 1501} }

SecondComponents ==
    { Component(30, 30, 20, 20, 100, m) : m \in {15000, 20400, 25000} }

ComponentLists ==
    {<<>>} \cup { <<c>> : c \in Components }
        \cup { <<c, d>> : c \in Components, d \in SecondComponents }
        \cup { <<d, e>> : d \in SecondComponents, e \in SecondComponents }

GlobalMeans == {400, 1200, 1201, 1700, 1701, 3100}

RECURSIVE intensity_sum(_)
intensity_sum(cs) ==
    IF Len(cs) = 0 THEN 0
    ELSE Head(cs).pixel_count * Head(cs).region_mean + intensity_sum(Tail(cs))

NoiseMaps ==
    { nm \in { NoiseMap(100, 100, gm, cs) : gm \in GlobalMeans, cs \in ComponentLists } :
        intensity_sum(nm.components) <= nm.global_mean * nm.img_w * nm.img_h }

NotExtracted == [regions |-> <<>>, global_mean |-> 0, threshold |-> 0, num_features |-> -1]

NoRegionExtraction ==
    /\ noise_map = NoiseMap(0, 0, 0, <<>>)
    /\ tampered_regions = NotExtracted

(***************************************************************************)
(* detect_if_scanned (lines 289-325): noise_std in grey levels, lines the  *)
(* number of segments found (0 when HoughLinesP returns None), white_ratio *)
(* in percent.  The confidence is in units of 1/10000.                     *)
(***************************************************************************)
ScanNoiseLow == 5
ScanNoiseHigh == 30
ScanMinLines == 10
ScanWhitePercent == 30
ScanMinScore == 2

\* mutant of detect_if_scanned: scanned only above two points
detect_if_scanned_above_two(noise_std, lines, white_ratio) ==
    LET score == (IF ScanNoiseLow < noise_std /\ noise_std < ScanNoiseHigh THEN 1 ELSE 0)
                 + (IF lines > ScanMinLines THEN 1 ELSE 0)
                 + (IF white_ratio > ScanWhitePercent THEN 1 ELSE 0)
    IN  [is_scanned |-> score > ScanMinScore,
         confidence |-> Min((score * 10000) \div 3, 10000),
         reasons |-> <<ScanNoiseLow < noise_std /\ noise_std < ScanNoiseHigh,
                       lines > ScanMinLines,
                       white_ratio > ScanWhitePercent>>]

detect_if_scanned(noise_std, lines, white_ratio) ==
    LET score == (IF ScanNoiseLow < noise_std /\ noise_std < ScanNoiseHigh THEN 1 ELSE 0)
                 + (IF lines > ScanMinLines THEN 1 ELSE 0)
                 + (IF white_ratio > ScanWhitePercent THEN 1 ELSE 0)
    IN  [is_scanned |-> score >= ScanMinScore,
         confidence |-> Min((score * 10000) \div 3, 10000),
         reasons |-> <<ScanNoiseLow < noise_std /\ noise_std < ScanNoiseHigh,
                       lines > ScanMinLines,
                       white_ratio > ScanWhitePercent>>]

(***************************************************************************)
(* detect_copy_move (lines 246-287).  The input is what ORB and knnMatch   *)
(* (lines 253-260) give: the number of keypoints and, per descriptor, its  *)
(* match pair: the Hamming distances of the nearest (m) and the second     *)
(* nearest (n) descriptor, 0 for has_second when knnMatch found only one,  *)
(* and the keypoints pt1, pt2 of the nearest match.  Confidences are in    *)
(* units of 1/256.                                                         *)
(***************************************************************************)
MinDistance == 50
RatioNum == 3
RatioDen == 4
MaxHamming == 256

MatchPair(m_distance, has_second, n_distance, pt1, pt2) ==
    [m_distance |-> m_distance, has_second |-> has_second,
     n_distance |-> n_distance, pt1 |-> pt1, pt2 |-> pt2]

\* line 269: m.distance < 0.75 * n.distance
ratio_test(p) == RatioDen * p.m_distance < RatioNum * p.n_distance

\* line 272, squared: np.sqrt of an integer square is exact
squared_dist(p) ==
    (p.pt1[1] - p.pt2[1]) * (p.pt1[1] - p.pt2[1])
    + (p.pt1[2] - p.pt2[2]) * (p.pt1[2] - p.pt2[2])

\* line 273: dist > min_distance
far_apart(p) == squared_dist(p) > MinDistance * MinDistance

\* lines 267-273
match_kept(p) == p.has_second = 1 /\ ratio_test(p) /\ far_apart(p)

\* lines 274-278
SuspiciousRegion(p) ==
    [point1 |-> p.pt1, point2 |-> p.pt2, confidence |-> MaxHamming - p.m_distance]

\* lines 265-278
RECURSIVE suspicious_regions_of(_)
suspicious_regions_of(pairs) ==
    IF Len(pairs) = 0 THEN <<>>
    ELSE (IF match_kept(Head(pairs)) THEN <<SuspiciousRegion(Head(pairs))>> ELSE <<>>)
         \o suspicious_regions_of(Tail(pairs))

\* lines 256-257 and 287: the list returned
detect_copy_move(found) ==
    IF found.keypoints < 2 THEN <<>> ELSE suspicious_regions_of(found.pairs)

\* match pairs on both sides of the tests: a descriptor matching itself
\* (distance 0 at the same keypoint), nearest distances 29 and 30 against a
\* second nearest of 40 (30 = 0.75 * 40), a pair without a second nearest,
\* keypoints 49.2, 50 and 50.8 pixels apart
MaxMatches == 2

FarPoints == { <<40, 49>>, <<40, 50>>, <<40, 51>> }

MatchPairs ==
    { MatchPair(m, 1, 40, <<10, 10>>, pt2) : m \in {29, 30}, pt2 \in FarPoints }
        \cup { MatchPair(20, 0, 0, <<10, 10>>, pt2) : pt2 \in FarPoints }
        \cup { MatchPair(0, 1, 40, <<10, 10>>, <<10, 10>>) }

RECURSIVE PairLists(_)
PairLists(n) ==
    IF n = 0 THEN { <<>> }
    ELSE PairLists(n - 1)
         \cup { Append(ps, p) : ps \in { l \in PairLists(n - 1) : Len(l) = n - 1 },
                                 p \in MatchPairs }

\* a raster without descriptors or with a single keypoint, and rasters with
\* one match pair per keypoint
Found ==
    { [keypoints |-> k, pairs |-> <<>>] : k \in {0, 1} }
        \cup { [keypoints |-> Len(ps), pairs |-> ps] :
                  ps \in { l \in PairLists(MaxMatches) : Len(l) >= 2 } }

NoMatches == [keypoints |-> 0, pairs |-> <<>>]
NotMatched == << [point1 |-> <<0, 0>>, point2 |-> <<0, 0>>, confidence |-> -1] >>

NoCopyMove ==
    /\ matches = NoMatches
    /\ suspicious_regions = NotMatched

(***************************************************************************)
(* perform_forensic_analysis (lines 456-565) as a method: from the         *)
(* instance's flag and a raster to the flag it leaves and the result it    *)
(* returns.  A raster is given by what the steps measure on it.            *)
(***************************************************************************)
Raster(noise_std, lines, white_ratio, nm, copy_move, ela_hot) ==
    [noise_std |-> noise_std, lines |-> lines, white_ratio |-> white_ratio,
     noise |-> nm, copy_move |-> copy_move, ela_hot |-> ela_hot]

MinRegionArea == 300

forensic_analysis_with(self_is_scanned, raster, min_pixels) ==
    LET scan_info == detect_if_scanned(raster.noise_std, raster.lines, raster.white_ratio)
        extracted == extract_tampered_regions_from_noise(raster.noise, min_pixels)
        scored == ForensicResult(Len(extracted.regions), raster.copy_move, raster.ela_hot)
    IN  [is_scanned_document |-> self_is_scanned \/ scan_info.is_scanned,
         result |-> [forensic_score |-> scored.forensic_score,
                     forensic_verdict |-> scored.forensic_verdict,
                     forensic_metrics |->
                         [ela_hot_pixels_ratio |-> raster.ela_hot,
                          tampered_regions_count |-> Len(extracted.regions),
                          copy_move_matches |-> raster.copy_move,
                          noise_threshold |-> extracted.threshold,
                          noise_global_mean |-> extracted.global_mean],
                     tampered_regions |-> extracted.regions,
                     scan_info |-> scan_info]]

\* mutant of perform_forensic_analysis: the instance's flag and its
\* min_region_area (line 44) decide the smallest region
perform_forensic_analysis_by_flag(self_is_scanned, raster) ==
    forensic_analysis_with(self_is_scanned, raster,
                           IF self_is_scanned THEN MinRegionArea ELSE MinPixels)

\* line 474 sets the flag and no line reads it; line 487 passes min_pixels=80
perform_forensic_analysis(self_is_scanned, raster) ==
    forensic_analysis_with(self_is_scanned, raster, MinPixels)

\* rasters on both sides of the tests of detect_if_scanned, with no, one and
\* two tampered regions
SampleNoiseMaps ==
    { NoiseMap(100, 100, 400, cs) :
        cs \in { <<>>,
                 <<Component(5, 5, 40, 40, 80, 20400)>>,
                 <<Component(30, 30, 20, 20, 100, 15000),
                   Component(5, 5, 40, 40, 80, 20400)>> } }

RegionRasters ==
    { Raster(ns, ln, 31, nm, 11, 21) :
        ns \in {5, 6}, ln \in {10, 11}, nm \in SampleNoiseMaps }

\* rasters without regions at the limits of lines 306, 312 and 318
ScanRasters ==
    { Raster(ns, ln, wr, NoiseMap(100, 100, 400, <<>>), 11, 21) :
        ns \in {5, 6, 30}, ln \in {10, 11}, wr \in {30, 31} }

\* rasters whose noise map has a component of 500 pixels at the greatest
\* value of a uint8 map (line 167), 255, with a global mean just below, at
\* and just above 255/12 = 21.25
BrightRasters ==
    { Raster(6, 11, 31,
             NoiseMap(100, 100, gm, <<Component(30, 30, 25, 25, 500, WhiteLevel)>>),
             11, 21) : gm \in {2124, 2125, 2126} }

Rasters == RegionRasters \cup ScanRasters \cup BrightRasters

\* ForensicAnalyzer.__init__ (lines 41-45) as IntegratedTamperingDetector
\* constructs it (line 432, app.py line 2101)
NoAnalyzer ==
    /\ is_scanned_document = FALSE
    /\ analyses = <<>>

(***************************************************************************)
(* Jobs running at once: start_tampering_detection (app.py lines           *)
(* 2201-2232) starts one thread per request, each with a detector of its   *)
(* own.  All detectors share the directory of the page images              *)
(* (tempfile.gettempdir()/integrated_tampering, lines 433 and 449) and the *)
(* directory of the reports (app.py line 2101), in which ensure_outdir     *)
(* (lines 47-52) names a directory after the second of the wall clock.     *)
(*   temp_dir[k]      the job whose page k is in page_<k>.png (0: no file) *)
(*   forensic_dir[t]  <<job, page>> whose images are in forensic_<t>       *)
(***************************************************************************)
MaxClock == 1

JobIds == {1, 2}

NoFile == 0

NoImages == <<0, 0>>

Thread(at, is_pdf, pages, page, outdir, opened, reopened, status) ==
    [at |-> at, is_pdf |-> is_pdf, pages |-> pages, page |-> page,
     forensic_outdir |-> outdir, opened |-> opened, reopened |-> reopened,
     status |-> status]

NewThread == Thread("pending", FALSE, 0, 1, -1, NoFile, NoFile, "pending")

\* whose raster job j finds under the path of its page: its own upload, or
\* whatever page_<k>.png holds now
image_at(j, thread, files) == IF thread.is_pdf THEN files[thread.page] ELSE j

NoThreads ==
    /\ clock = 0
    /\ threads = [j \in JobIds |-> NewThread]
    /\ temp_dir = [k \in 1..MaxPages |-> NoFile]
    /\ forensic_dir = [t \in 0..MaxClock |-> NoImages]

(***************************************************************************)
(* analyze_document (lines 651-722)                                        *)
(***************************************************************************)
\* the variables a run of the document analysis does not touch
OutsideDocument ==
    /\ NoRegionExtraction
    /\ NoAnalyzer
    /\ NoCopyMove
    /\ NoThreads
    /\ NoPoll

Init ==
    /\ pc = "start"
    /\ image_paths = <<>>
    /\ idx = 1
    /\ forensic_results = NoForensic
    /\ llm_results = NoLlm
    /\ results = <<>>
    /\ final_report = NoReport
    /\ raised = ""
    /\ job = AnalysisJob
    /\ steps = <<>>
    /\ OutsideDocument

\* app.py lines 2084-2109: the thread of the job starts
RunTamperingDetection ==
    /\ pc = "start"
    /\ job.status = "pending"
    /\ job' = [job EXCEPT !.status = "processing", !.progress = 40]
    /\ UNCHANGED <<pc, image_paths, idx, forensic_results, llm_results, results,
                   final_report, raised, steps>>
    /\ UNCHANGED <<forensic_vars, thread_vars, poll_vars>>

\* lines 659-660: the file does not exist
FileNotFound ==
    /\ pc = "start"
    /\ job.status = "processing"
    /\ final_report' = [NoReport EXCEPT !.error = "File not found"]
    /\ pc' = "done"
    /\ UNCHANGED <<image_paths, idx, forensic_results, llm_results, results, raised,
                   job, steps>>
    /\ UNCHANGED <<forensic_vars, thread_vars, poll_vars>>

\* lines 674-682: one image, or one image per page of the PDF
ConvertToImages ==
    /\ pc = "start"
    /\ job.status = "processing"
    /\ \E n \in 0..MaxPages :
        /\ image_paths' = [i \in 1..n |-> i]
        /\ pc' = IF n = 0 THEN "report" ELSE "forensic"
    /\ UNCHANGED <<idx, forensic_results, llm_results, results, final_report, raised,
                   job, steps>>
    /\ UNCHANGED <<forensic_vars, thread_vars, poll_vars>>

\* line 689, perform_forensic_analysis (lines 456-565): no handler around
\* Image.open (line 464) or the analysis steps, so a raster that cannot be
\* decoded raises out of analyze_document
ForensicAnalysisOn(metrics) ==
    /\ pc = "forensic"
    /\ \/ /\ \E m \in metrics : forensic_results' = ForensicResult(m[1], m[2], m[3])
          /\ steps' = Append(steps, <<"forensic", idx>>)
          /\ pc' = "llm"
          /\ UNCHANGED raised
       \/ /\ raised' = "UnidentifiedImageError"
          /\ pc' = "raised"
          /\ UNCHANGED <<forensic_results, steps>>
    /\ UNCHANGED <<image_paths, idx, llm_results, results, final_report, job>>
    /\ UNCHANGED <<forensic_vars, thread_vars, poll_vars>>

PerformForensicAnalysis == ForensicAnalysisOn(ForensicMetrics)

\* lines 613-649: the call and the parse of the reply
LlmCallAndParse ==
    /\ pc = "llm"
    /\ \E outcome \in LlmOutcomes : llm_results' = llm_call_result(outcome)
    /\ steps' = Append(steps, <<"assessor", idx>>)
    /\ pc' = "combine"
    /\ UNCHANGED <<image_paths, idx, forensic_results, results, final_report, raised,
                   job>>
    /\ UNCHANGED <<forensic_vars, thread_vars, poll_vars>>

\* line 695, analyze_with_llm_reasoning (lines 567-649): the request is built
\* (line 603) before the call is tried
AnalyzeWithLlmReasoning ==
    /\ pc = "llm"
    /\ IF call_raises(prompt_keywords, prompt_parameters)
       THEN /\ raised' = "TypeError: unexpected keyword argument"
            /\ pc' = "raised"
            /\ UNCHANGED <<image_paths, idx, forensic_results, llm_results, results,
                           final_report, job, steps>>
            /\ UNCHANGED <<forensic_vars, thread_vars, poll_vars>>
       ELSE LlmCallAndParse

\* mutant of after_page: the loop is left after its first page
after_page_leave(page, total_pages) == "report"

\* line 683: the next page, or the end of the loop
after_page(page, total_pages) == IF page < total_pages THEN "forensic" ELSE "report"

\* lines 701-710
CombineResults ==
    /\ pc = "combine"
    /\ IF verdict_raises(llm_results)
       THEN /\ raised' = "TypeError: unsupported operand"
            /\ pc' = "raised"
            /\ UNCHANGED <<idx, results, steps>>
       ELSE /\ results' = Append(results,
                [page |-> idx,
                 forensic_analysis |-> forensic_results,
                 llm_analysis |-> llm_results,
                 integrated_verdict |->
                     create_integrated_verdict(forensic_results, llm_results)])
            /\ steps' = Append(steps, <<"verdict", idx>>)
            /\ idx' = idx + 1
            /\ pc' = after_page(idx, Len(image_paths))
            /\ UNCHANGED raised
    /\ UNCHANGED <<image_paths, forensic_results, llm_results, final_report, job>>
    /\ UNCHANGED <<forensic_vars, thread_vars, poll_vars>>

\* lines 712-722
CreateFinalReport ==
    /\ pc = "report"
    /\ IF summary_raises(results) # ""
       THEN /\ raised' = summary_raises(results)
            /\ pc' = "raised"
            /\ UNCHANGED <<final_report, steps>>
       ELSE /\ final_report' = [error |-> "",
                                total_pages |-> Len(image_paths),
                                page_analyses |-> results,
                                summary |-> create_summary(results)]
            /\ steps' = Append(steps, <<"summary", 0>>)
            /\ pc' = "done"
            /\ UNCHANGED raised
    /\ UNCHANGED <<image_paths, idx, forensic_results, llm_results, results, job>>
    /\ UNCHANGED <<forensic_vars, thread_vars, poll_vars>>

\* app.py lines 2111-2167: analyze_document has returned or raised
JobEnds ==
    /\ pc \in {"done", "raised"}
    /\ job.status = "processing"
    /\ job' = job_outcome(job, raised, final_report)
    /\ UNCHANGED <<pc, image_paths, idx, forensic_results, llm_results, results,
                   final_report, raised, steps>>
    /\ UNCHANGED <<forensic_vars, thread_vars, poll_vars>>

\* analyze_document as it runs: line 695 raises on the first page, so the
\* step of lines 701-710 is never taken
Next ==
    \/ RunTamperingDetection
    \/ FileNotFound
    \/ ConvertToImages
    \/ PerformForensicAnalysis
    \/ AnalyzeWithLlmReasoning
    \/ CreateFinalReport
    \/ JobEnds

Spec == Init /\ [][Next]_vars

(***************************************************************************)
(* The page loop from the assessor call on: the reply handling of lines    *)
(* 613-649, the fusion of each page (lines 701-710) and the summary (lines *)
(* 712-722), on documents of up to MaxPages pages.                         *)
(***************************************************************************)
InitPages ==
    /\ \E n \in 0..MaxPages :
        /\ image_paths = [i \in 1..n |-> i]
        /\ pc = IF n = 0 THEN "report" ELSE "forensic"
    /\ idx = 1
    /\ forensic_results = NoForensic
    /\ llm_results = NoLlm
    /\ results = <<>>
    /\ final_report = NoReport
    /\ raised = ""
    /\ job = [AnalysisJob EXCEPT !.status = "processing", !.progress = 40]
    /\ steps = <<>>
    /\ OutsideDocument

AnalysePage == ForensicAnalysisOn(PageMetrics)

NextPages ==
    \/ AnalysePage
    \/ LlmCallAndParse
    \/ CombineResults
    \/ CreateFinalReport

SpecPages == InitPages /\ [][NextPages]_vars

(***************************************************************************)
(* The fusion and the summary on one page, over the whole input grid, and  *)
(* the end of the job                                                      *)
(***************************************************************************)
InitFusion ==
    /\ pc = "combine"
    /\ image_paths = <<1>>
    /\ idx = 1
    /\ \E s \in FusionScores :
           forensic_results = [NoForensic EXCEPT !.forensic_score = s,
                                   !.forensic_verdict = forensic_verdict_of(s)]
    /\ llm_results \in FusionReplies
    /\ results = <<>>
    /\ final_report = NoReport
    /\ raised = ""
    /\ job = [AnalysisJob EXCEPT !.status = "processing", !.progress = 40]
    /\ steps = << <<"forensic", 1>>, <<"assessor", 1>> >>
    /\ OutsideDocument

NextFusion == CombineResults \/ CreateFinalReport \/ JobEnds

SpecFusion == InitFusion /\ [][NextFusion]_vars

(***************************************************************************)
(* The region extraction on every noise map of NoiseMaps                   *)
(***************************************************************************)
NoDocumentRun ==
    /\ pc = "none"
    /\ image_paths = <<>>
    /\ idx = 1
    /\ forensic_results = NoForensic
    /\ llm_results = NoLlm
    /\ results = <<>>
    /\ final_report = NoReport
    /\ raised = ""
    /\ job = AnalysisJob
    /\ steps = <<>>

InitRegions ==
    /\ noise_map \in NoiseMaps
    /\ tampered_regions = NotExtracted
    /\ NoAnalyzer
    /\ NoCopyMove
    /\ NoThreads
    /\ NoPoll
    /\ NoDocumentRun

\* line 486: the call with min_pixels=80
ExtractTamperedRegions ==
    /\ tampered_regions = NotExtracted
    /\ tampered_regions' = extract_tampered_regions_from_noise(noise_map, MinPixels)
    /\ UNCHANGED <<noise_map, is_scanned_document, analyses, matches, suspicious_regions>>
    /\ UNCHANGED <<document_vars, thread_vars, poll_vars>>

NextRegions == ExtractTamperedRegions

SpecRegions == InitRegions /\ [][NextRegions]_vars

(***************************************************************************)
(* The copy-move detection on the match pairs of Found                     *)
(***************************************************************************)
InitCopyMove ==
    /\ matches \in Found
    /\ suspicious_regions = NotMatched
    /\ NoAnalyzer
    /\ NoRegionExtraction
    /\ NoThreads
    /\ NoPoll
    /\ NoDocumentRun

\* line 501: the call on the page's raster
DetectCopyMove ==
    /\ suspicious_regions = NotMatched
    /\ suspicious_regions' = detect_copy_move(matches)
    /\ UNCHANGED <<noise_map, tampered_regions, is_scanned_document, analyses, matches>>
    /\ UNCHANGED <<document_vars, thread_vars, poll_vars>>

NextCopyMove == DetectCopyMove

SpecCopyMove == InitCopyMove /\ [][NextCopyMove]_vars

(***************************************************************************)
(* One detector analysing rasters one after the other                      *)
(***************************************************************************)
MaxAnalyses == 3

InitForensic ==
    /\ NoAnalyzer
    /\ NoCopyMove
    /\ NoRegionExtraction
    /\ NoThreads
    /\ NoPoll
    /\ NoDocumentRun

\* lines 456-565 on one raster
AnalyseRaster ==
    /\ Len(analyses) < MaxAnalyses
    /\ \E raster \in Rasters :
        LET call == perform_forensic_analysis(is_scanned_document, raster)
        IN  /\ is_scanned_document' = call.is_scanned_document
            /\ analyses' = Append(analyses, [raster |-> raster, result |-> call.result])
    /\ UNCHANGED <<noise_map, tampered_regions, matches, suspicious_regions>>
    /\ UNCHANGED <<document_vars, thread_vars, poll_vars>>

NextForensic == AnalyseRaster

SpecForensic == InitForensic /\ [][NextForensic]_vars

(***************************************************************************)
(* Two jobs at once.  Each thread runs run_tampering_detection: the        *)
(* conversion of its document, then the forensic analysis of its first     *)
(* page, after which line 603 raises and the job fails.                    *)
(***************************************************************************)
InitJobs ==
    /\ NoThreads
    /\ NoPoll
    /\ NoRegionExtraction
    /\ NoAnalyzer
    /\ NoCopyMove
    /\ NoDocumentRun

\* one second passes
Tick ==
    /\ clock < MaxClock
    /\ clock' = clock + 1
    /\ UNCHANGED <<threads, temp_dir, forensic_dir>>
    /\ UNCHANGED <<document_vars, forensic_vars, poll_vars>>

\* app.py lines 2084-2111: the thread starts on a PDF of some pages or on an
\* image
StartThread(j) ==
    /\ threads[j].at = "pending"
    /\ \E is_pdf \in BOOLEAN, n \in 0..MaxPages :
        /\ (~is_pdf) => n = 1
        /\ threads' = [threads EXCEPT ![j] =
               [@ EXCEPT !.at = "convert", !.is_pdf = is_pdf, !.pages = n,
                         !.status = "processing"]]
    /\ UNCHANGED <<clock, temp_dir, forensic_dir>>
    /\ UNCHANGED <<document_vars, forensic_vars, poll_vars>>

\* lines 674-679 and convert_pdf_to_images (lines 441-454): page k is saved
\* as page_<k>.png whatever that file holds; without pages the summary of
\* line 719 raises
ConvertPdfToImages(j) ==
    /\ threads[j].at = "convert"
    /\ temp_dir' = [k \in 1..MaxPages |->
                       IF threads[j].is_pdf /\ k <= threads[j].pages
                       THEN j ELSE temp_dir[k]]
    /\ threads' = [threads EXCEPT ![j] =
           IF @.pages = 0
           THEN [@ EXCEPT !.at = "ended", !.status = "failed"]
           ELSE [@ EXCEPT !.at = "outdir"]]
    /\ UNCHANGED <<clock, forensic_dir>>
    /\ UNCHANGED <<document_vars, forensic_vars, poll_vars>>

\* line 461, ensure_outdir (lines 47-52)
EnsureOutdir(j) ==
    /\ threads[j].at = "outdir"
    /\ threads' = [threads EXCEPT ![j] = [@ EXCEPT !.at = "open", !.forensic_outdir = clock]]
    /\ UNCHANGED <<clock, temp_dir, forensic_dir>>
    /\ UNCHANGED <<document_vars, forensic_vars, poll_vars>>

\* line 464: Image.open(image_path)
OpenImage(j) ==
    /\ threads[j].at = "open"
    /\ threads' = [threads EXCEPT ![j] =
           [@ EXCEPT !.at = "write", !.opened = image_at(j, threads[j], temp_dir)]]
    /\ UNCHANGED <<clock, temp_dir, forensic_dir>>
    /\ UNCHANGED <<document_vars, forensic_vars, poll_vars>>

\* lines 482-516: the images are written under fixed names into the
\* directory; line 495, detect_ela (line 56), opens image_path once more
WriteImages(j) ==
    /\ threads[j].at = "write"
    /\ forensic_dir' = [forensic_dir EXCEPT ![threads[j].forensic_outdir] = <<j, threads[j].page>>]
    /\ threads' = [threads EXCEPT ![j] =
           [@ EXCEPT !.at = "llm", !.reopened = image_at(j, threads[j], temp_dir)]]
    /\ UNCHANGED <<clock, temp_dir>>
    /\ UNCHANGED <<document_vars, forensic_vars, poll_vars>>

\* line 695: the request cannot be built (line 603); app.py lines 2161-2167
ThreadFails(j) ==
    /\ threads[j].at = "llm"
    /\ call_raises(prompt_keywords, prompt_parameters)
    /\ threads' = [threads EXCEPT ![j] = [@ EXCEPT !.at = "ended", !.status = "failed"]]
    /\ UNCHANGED <<clock, temp_dir, forensic_dir>>
    /\ UNCHANGED <<document_vars, forensic_vars, poll_vars>>

NextJobs ==
    \/ Tick
    \/ \E j \in JobIds : StartThread(j)
    \/ \E j \in JobIds : ConvertPdfToImages(j)
    \/ \E j \in JobIds : EnsureOutdir(j)
    \/ \E j \in JobIds : OpenImage(j)
    \/ \E j \in JobIds : WriteImages(j)
    \/ \E j \in JobIds : ThreadFails(j)

SpecJobs == InitJobs /\ [][NextJobs]_vars

(***************************************************************************)
(* One job, statement by statement, with status polls in between:          *)
(* run_tampering_detection (app.py lines 2084-2167) in its thread and      *)
(* get_analysis_status (lines 1024-1054) in the request threads.  worker   *)
(* names the statement the thread is at.  save_job_to_disk (lines 72-93)   *)
(* catches its own exceptions, so a save that fails leaves the file as it  *)
(* was.                                                                    *)
(***************************************************************************)
InitStatus ==
    /\ NoDocumentRun
    /\ NoAnalyzer
    /\ NoCopyMove
    /\ NoRegionExtraction
    /\ NoThreads
    /\ NoPoll

\* what detector.analyze_document (line 2111) ends in: the TypeError of line
\* 603, the ValueError of a document without pages, or the dict returned for
\* a file that does not exist
AnalyzeOutcomes ==
    { [raised |-> "TypeError: unexpected keyword argument", report |-> NoReport],
      [raised |-> "ValueError", report |-> NoReport],
      [raised |-> "", report |-> [NoReport EXCEPT !.error = "File not found"]] }

\* the statement after a progress assignment and after a save
after_progress(at) ==
    CASE at = "progress10" -> "save10" [] at = "progress20" -> "save20"
      [] at = "progress40" -> "save40" [] at = "progress80" -> "save80"
      [] at = "progress100" -> "completed_status"

after_save(at) ==
    CASE at = "save10" -> "progress20" [] at = "save20" -> "progress40"
      [] at = "save40" -> "analyze" [] at = "save80" -> "check"
      [] at = "completed_save" -> "ended" [] at = "failed_save" -> "ended"

progress_at(at) ==
    CASE at = "progress10" -> 10 [] at = "progress20" -> 20 [] at = "progress40" -> 40
      [] at = "progress80" -> 80 [] at = "progress100" -> 100

\* line 2087
SetProcessing ==
    /\ worker = "pending"
    /\ job' = [job EXCEPT !.status = "processing"]
    /\ worker' = "progress10"
    /\ UNCHANGED <<pc, image_paths, idx, forensic_results, llm_results, results,
                   final_report, raised, steps, saved, response>>
    /\ UNCHANGED <<forensic_vars, thread_vars>>

\* lines 2088, 2097, 2107, 2113 and 2156
SetProgress ==
    /\ worker \in {"progress10", "progress20", "progress40", "progress80", "progress100"}
    /\ job' = [job EXCEPT !.progress = progress_at(worker)]
    /\ worker' = after_progress(worker)
    /\ UNCHANGED <<pc, image_paths, idx, forensic_results, llm_results, results,
                   final_report, raised, steps, saved, response>>
    /\ UNCHANGED <<forensic_vars, thread_vars>>

\* lines 2089, 2098, 2108, 2114, 2159 and 2167
SaveJobToDisk ==
    /\ worker \in {"save10", "save20", "save40", "save80", "completed_save", "failed_save"}
    /\ \E written \in BOOLEAN : saved' = IF written THEN job ELSE saved
    /\ worker' = after_save(worker)
    /\ UNCHANGED <<document_vars, response>>
    /\ UNCHANGED <<forensic_vars, thread_vars>>

\* line 2111
AnalyzeDocument ==
    /\ worker = "analyze"
    /\ \E outcome \in AnalyzeOutcomes :
        /\ raised' = outcome.raised
        /\ final_report' = outcome.report
        /\ worker' = IF outcome.raised # "" THEN "failed_status" ELSE "progress80"
    /\ UNCHANGED <<pc, image_paths, idx, forensic_results, llm_results, results, job,
                   steps, saved, response>>
    /\ UNCHANGED <<forensic_vars, thread_vars>>

\* lines 2116-2117
CheckError ==
    /\ worker = "check"
    /\ IF final_report.error # ""
       THEN raised' = final_report.error /\ worker' = "failed_status"
       ELSE UNCHANGED raised /\ worker' = "result"
    /\ UNCHANGED <<pc, image_paths, idx, forensic_results, llm_results, results, job,
                   final_report, steps, saved, response>>
    /\ UNCHANGED <<forensic_vars, thread_vars>>

\* lines 2119-2152
SetResult ==
    /\ worker = "result"
    /\ job' = [job EXCEPT !.result = [totalPages |-> final_report.total_pages,
                                      summary |-> final_report.summary,
                                      pageAnalyses |-> Len(final_report.page_analyses)]]
    /\ worker' = "progress100"
    /\ UNCHANGED <<pc, image_paths, idx, forensic_results, llm_results, results,
                   final_report, raised, steps, saved, response>>
    /\ UNCHANGED <<forensic_vars, thread_vars>>

\* line 2157
SetCompleted ==
    /\ worker = "completed_status"
    /\ job' = [job EXCEPT !.status = "completed"]
    /\ worker' = "completed_at"
    /\ UNCHANGED <<pc, image_paths, idx, forensic_results, llm_results, results,
                   final_report, raised, steps, saved, response>>
    /\ UNCHANGED <<forensic_vars, thread_vars>>

\* line 2158
SetCompletedAt ==
    /\ worker = "completed_at"
    /\ job' = [job EXCEPT !.completed_at = 1]
    /\ worker' = "completed_save"
    /\ UNCHANGED <<pc, image_paths, idx, forensic_results, llm_results, results,
                   final_report, raised, steps, saved, response>>
    /\ UNCHANGED <<forensic_vars, thread_vars>>

\* line 2165, in the handler of line 2161
SetFailed ==
    /\ worker = "failed_status"
    /\ job' = [job EXCEPT !.status = "failed"]
    /\ worker' = "failed_error"
    /\ UNCHANGED <<pc, image_paths, idx, forensic_results, llm_results, results,
                   final_report, raised, steps, saved, response>>
    /\ UNCHANGED <<forensic_vars, thread_vars>>

\* line 2166
SetError ==
    /\ worker = "failed_error"
    /\ job' = [job EXCEPT !.error = raised]
    /\ worker' = "failed_save"
    /\ UNCHANGED <<pc, image_paths, idx, forensic_results, llm_results, results,
                   final_report, raised, steps, saved, response>>
    /\ UNCHANGED <<forensic_vars, thread_vars>>

\* get_analysis_status, lines 1028-1048: a request reads the job in memory
PollStatus ==
    /\ response.done
    /\ response' = response_of(job)
    /\ UNCHANGED <<document_vars, worker, saved>>
    /\ UNCHANGED <<forensic_vars, thread_vars>>

\* lines 1050-1054: the result is added and the response is sent
PollResult ==
    /\ ~response.done
    /\ response' = with_result(response, job)
    /\ UNCHANGED <<document_vars, worker, saved>>
    /\ UNCHANGED <<forensic_vars, thread_vars>>

\* analyze_document never returns a report without an error (line 603), so
\* the statements of lines 2119-2159 are never reached
NextStatus ==
    \/ SetProcessing
    \/ SetProgress
    \/ SaveJobToDisk
    \/ AnalyzeDocument
    \/ CheckError
    \/ SetFailed
    \/ SetError
    \/ PollStatus
    \/ PollResult

SpecStatus == InitStatus /\ [][NextStatus]_vars

(***************************************************************************)
(* Properties                                                              *)
(***************************************************************************)
Pages == 1..Len(results)
Reported == pc = "done" /\ final_report.error = ""
Inconclusive == "INCONCLUSIVE - REQUIRES MANUAL REVIEW"
NoSignificant == "NO SIGNIFICANT TAMPERING DETECTED"

\* the VisualAssessment of the data model: tamperingDetected bool or null,
\* confidenceScore an integer
WellTyped(llm) ==
    /\ llm.tampering_detected.t \in {"bool", "null"}
    /\ llm.confidence_score.t = "int"

AssessorSaysTampered(llm) ==
    llm.tampering_detected = JBool(TRUE) /\ llm.confidence_score.v * 100 > 5000

\* the assessment {tamperingDetected: false, confidenceScore: 0}
CleanZero == LlmReply(Absent, JBool(FALSE), JInt(0), Absent)

SameVerdict(a, b) ==
    /\ a.agreement = b.agreement
    /\ a.combined_score = b.combined_score
    /\ a.verdict = b.verdict
    /\ a.risk_level = b.risk_level

PageNeedsReview(r) ==
    r.integrated_verdict.agreement = "DISAGREE" \/ r.llm_analysis = LlmFailure

\* C1: a page whose fusion ended in disagreement, or whose assessor call
\* failed, is labelled INCONCLUSIVE at every forensic score (never NO
\* SIGNIFICANT TAMPERING), and the report of a document with such a page
\* never has the status text NO TAMPERING DETECTED.
C1_ReviewNeverClean ==
    /\ \A i \in Pages :
           PageNeedsReview(results[i])
               => results[i].integrated_verdict.verdict = Inconclusive
    /\ (Reported /\ \E i \in Pages : PageNeedsReview(results[i]))
           => final_report.summary.status_text # "NO TAMPERING DETECTED"

\* C1 witness: a finished two-page report whose first page lost its
\* assessment at forensic score 0 and whose second page is clean.
C1_Witness ==
    /\ Reported
    /\ Len(results) = 2
    /\ results[1].llm_analysis = LlmFailure
    /\ results[1].forensic_analysis.forensic_score = 0
    /\ results[2].integrated_verdict.verdict = NoSignificant

\* C2: when the forensic side (score > 0.45) and the assessor side
\* (tamperingDetected = true and confidence/100 > 0.5) differ, the verdict
\* is DISAGREE with combinedScore = min(0.6, (score + confidence/100)/2),
\* at most 0.6, INCONCLUSIVE and MEDIUM.
C2_DisagreeIsCapped ==
    \A i \in Pages :
        LET r == results[i]
            fs == r.forensic_analysis.forensic_score
            v == r.integrated_verdict
        IN  (WellTyped(r.llm_analysis)
             /\ (fs > 4500) # AssessorSaysTampered(r.llm_analysis))
            => /\ v.agreement = "DISAGREE"
               /\ v.combined_score
                      = Min(6000, (fs + r.llm_analysis.confidence_score.v * 100) \div 2)
               /\ v.combined_score <= 6000
               /\ v.verdict = Inconclusive
               /\ v.risk_level = "MEDIUM"

\* C2 witness: score 0.8 fused with {tamperingDetected: false, confidence 80}.
C2_Witness ==
    /\ Len(results) = 1
    /\ results[1].forensic_analysis.forensic_score = 8000
    /\ results[1].llm_analysis.tampering_detected = JBool(FALSE)
    /\ results[1].llm_analysis.confidence_score = JInt(80)
    /\ results[1].integrated_verdict.combined_score = 6000

\* C3: score > 0.45 with tamperingDetected = true and confidence > 50 gives
\* AGREE with combinedScore = 0.5*score + 0.5*confidence/100; the label is
\* TAMPERING DETECTED - HIGH CONFIDENCE / CRITICAL exactly when
\* combinedScore > 0.7 and LIKELY TAMPERED / HIGH otherwise.
C3_AgreeTampered ==
    \A i \in Pages :
        LET r == results[i]
            fs == r.forensic_analysis.forensic_score
            c == r.llm_analysis.confidence_score
            v == r.integrated_verdict
        IN  (fs > 4500 /\ r.llm_analysis.tampering_detected = JBool(TRUE)
             /\ c.t = "int" /\ c.v > 50)
            => /\ v.agreement = "AGREE"
               /\ 2 * v.combined_score = fs + c.v * 100
               /\ IF v.combined_score > 7000
                  THEN v.verdict = "TAMPERING DETECTED - HIGH CONFIDENCE"
                       /\ v.risk_level = "CRITICAL"
                  ELSE v.verdict = "LIKELY TAMPERED" /\ v.risk_level = "HIGH"

\* C3 witness: score 0.8 fused with {tamperingDetected: true, confidence 90}
\* is CRITICAL.
C3_Witness ==
    /\ Len(results) = 1
    /\ results[1].forensic_analysis.forensic_score = 8000
    /\ results[1].llm_analysis.tampering_detected = JBool(TRUE)
    /\ results[1].llm_analysis.confidence_score = JInt(90)
    /\ results[1].integrated_verdict.risk_level = "CRITICAL"

\* C4: a null assessment with a forensic score above 0.45 takes the DISAGREE
\* path and is never labelled NO SIGNIFICANT TAMPERING.
C4_NullAboveThreshold ==
    \A i \in Pages :
        (results[i].llm_analysis = LlmFailure
         /\ results[i].forensic_analysis.forensic_score > 4500)
        => /\ results[i].integrated_verdict.agreement = "DISAGREE"
           /\ results[i].integrated_verdict.verdict # NoSignificant

\* C4 witness: the null assessment fused with score 0.5.
C4_Witness ==
    /\ Len(results) = 1
    /\ results[1].llm_analysis = LlmFailure
    /\ results[1].forensic_analysis.forensic_score = 5000

\* C5 as stated: at every forensic score the null assessment fuses to the
\* verdict of {tamperingDetected: false, confidenceScore: 0}, DISAGREE exactly
\* when the score exceeds 0.45 and AGREE otherwise.
C5_NullEqualsCleanZero ==
    \A i \in Pages :
        LET r == results[i] IN
        r.llm_analysis = LlmFailure
        => /\ SameVerdict(r.integrated_verdict,
                          create_integrated_verdict(r.forensic_analysis, CleanZero))
           /\ r.integrated_verdict.agreement
                  = (IF r.forensic_analysis.forensic_score > 4500
                     THEN "DISAGREE" ELSE "AGREE")

\* C5 amended: at every forensic score the null assessment fuses to DISAGREE
\* with combinedScore = min(0.6, score/2), INCONCLUSIVE and MEDIUM; that is
\* the verdict of {tamperingDetected: false, confidenceScore: 0} exactly when
\* the score exceeds 0.45.
C5_NullAlwaysDisagrees ==
    \A i \in Pages :
        LET r == results[i]
            fs == r.forensic_analysis.forensic_score
            v == r.integrated_verdict
        IN  r.llm_analysis = LlmFailure
            => /\ v.agreement = "DISAGREE"
               /\ v.combined_score = Min(6000, fs \div 2)
               /\ v.verdict = Inconclusive
               /\ v.risk_level = "MEDIUM"
               /\ SameVerdict(v, create_integrated_verdict(r.forensic_analysis, CleanZero))
                      <=> fs > 4500

\* C5 witness: the null assessment fused with score 0.3, below the threshold.
C5_Witness ==
    /\ Len(results) = 1
    /\ results[1].llm_analysis = LlmFailure
    /\ results[1].forensic_analysis.forensic_score = 3000
    /\ results[1].integrated_verdict.agreement = "DISAGREE"

\* C6: a reply that carries an error field is fused as the null assessment:
\* the DISAGREE path, never a clean verdict.
C6_ErrorReplyIsNull ==
    \A i \in Pages :
        LET r == results[i] IN
        r.llm_analysis.error # Absent
        => /\ SameVerdict(r.integrated_verdict,
                          create_integrated_verdict(r.forensic_analysis, LlmFailure))
           /\ r.integrated_verdict.agreement = "DISAGREE"
           /\ r.integrated_verdict.verdict # NoSignificant

\* C7: no JSON object reply, whatever field is missing, null or of the wrong
\* type, makes the fusion or the summary raise.
C7_MalformedNeverRaises ==
    raised \notin {"TypeError: unsupported operand", "TypeError: object has no len"}

\* C8: a raster that cannot be analysed does not end the document's run (the
\* page is scored 0 and the other pages are still analysed).
C8_PageFailureIsolated == ~(pc = "raised" /\ raised = "UnidentifiedImageError")

C9_Rank(x) ==
    CASE x = "LOW" -> 1 [] x = "MEDIUM" -> 2 [] x = "HIGH" -> 3 [] x = "CRITICAL" -> 4

\* C9: the summary's highest risk is the greatest page risk under
\* LOW < MEDIUM < HIGH < CRITICAL, and a document with a CRITICAL page has
\* highest risk CRITICAL and tamperingDetected = true.
C9_HighestRiskIsMax ==
    Reported =>
        LET rs == final_report.page_analyses
            s == final_report.summary
        IN  /\ \E i \in 1..Len(rs) :
                   rs[i].integrated_verdict.risk_level = s.highest_risk_level
            /\ \A i \in 1..Len(rs) :
                   C9_Rank(rs[i].integrated_verdict.risk_level)
                       <= C9_Rank(s.highest_risk_level)
            /\ (\E i \in 1..Len(rs) : rs[i].integrated_verdict.risk_level = "CRITICAL")
                   => s.highest_risk_level = "CRITICAL" /\ s.tampering_detected

\* C9 witness: a report of a CRITICAL page followed by a LOW page.
C9_Witness ==
    /\ Reported
    /\ Len(results) = 2
    /\ results[1].integrated_verdict.risk_level = "CRITICAL"
    /\ results[2].integrated_verdict.risk_level = "LOW"

C10_HasIssues(r) ==
    \/ r.integrated_verdict.combined_score > 5000
    \/ r.integrated_verdict.verdict = Inconclusive
    \/ /\ r.llm_analysis.tampering_detected = JBool(TRUE)
       /\ r.llm_analysis.confidence_score.t = "int"
       /\ r.llm_analysis.confidence_score.v >= 60

\* C10: the summary's tamperingDetected is true exactly when some page has
\* combinedScore > 0.5, or is INCONCLUSIVE, or has the assessor reporting
\* tampering with confidence >= 60.
C10_DetectedIffIssues ==
    Reported =>
        (final_report.summary.tampering_detected
            <=> \E i \in Pages : C10_HasIssues(results[i]))

\* C10 witness: a report with one INCONCLUSIVE page of combinedScore <= 0.5
\* and one page without issues.
C10_Witness ==
    /\ Reported
    /\ Len(results) = 2
    /\ results[1].integrated_verdict.verdict = Inconclusive
    /\ results[1].integrated_verdict.combined_score <= 5000
    /\ ~C10_HasIssues(results[2])
    /\ final_report.summary.tampering_detected

\* C11: the status text follows the priority: the manual-review text when any
\* page is INCONCLUSIVE, also when another page has confirmed tampering;
\* otherwise TAMPERING DETECTED when any page has issues; otherwise NO
\* TAMPERING DETECTED.
C11_StatusPriority ==
    Reported =>
        final_report.summary.status_text =
            (IF \E i \in Pages : results[i].integrated_verdict.verdict = Inconclusive
             THEN "INCONCLUSIVE - MANUAL REVIEW REQUIRED"
             ELSE IF \E i \in Pages : C10_HasIssues(results[i])
                  THEN "TAMPERING DETECTED"
                  ELSE "NO TAMPERING DETECTED")

\* C11 witness: a report of a page with confirmed tampering (CRITICAL) and an
\* INCONCLUSIVE page, whose status text is the manual-review text.
C11_Witness ==
    /\ Reported
    /\ Len(results) = 2
    /\ results[1].integrated_verdict.verdict = "TAMPERING DETECTED - HIGH CONFIDENCE"
    /\ results[2].integrated_verdict.verdict = Inconclusive
    /\ final_report.summary.status_text = "INCONCLUSIVE - MANUAL REVIEW REQUIRED"

\* C12: a document without analysed pages never gets a summary: the
\* aggregation over no pages raises, no report is made and the job ends
\* failed with an error message.
C12_NoPagesNoSummary ==
    /\ (pc \in {"report", "raised", "done"} /\ Len(image_paths) = 0)
           => final_report.summary = NoSummary
    /\ (job.status \in {"completed", "failed"} /\ Len(image_paths) = 0)
           => /\ job.status = "failed"
              /\ job.error # ""
              /\ job.result = NoJobResult

\* C12 witness: a PDF without pages was converted, the summary raised
\* ValueError and the job has ended failed with that message.
C12_Witness ==
    /\ Len(image_paths) = 0
    /\ raised = "ValueError"
    /\ job.status = "failed"
    /\ job.error = "ValueError"

\* a forensic analysis has returned: forensic_results is its result
ForensicDone == \E k \in 1..Len(steps) : steps[k][1] = "forensic"

\* C13: for every region count, copy-move match count and ELA hot-pixel ratio
\* the forensic score lies in [0,1] and the label is LIKELY TAMPERED exactly
\* when the score exceeds 0.45; a score of exactly 0.45 is LIKELY ORIGINAL.
C13_ScoreAndLabel ==
    ForensicDone =>
        /\ forensic_results.forensic_score >= 0
        /\ forensic_results.forensic_score <= 10000
        /\ forensic_results.forensic_verdict
               = (IF forensic_results.forensic_score > 4500
                  THEN "LIKELY TAMPERED" ELSE "LIKELY ORIGINAL")

\* C13 witness: one region and a hot ELA ratio score exactly 0.45, labelled
\* LIKELY ORIGINAL.
C13_Witness ==
    /\ ForensicDone
    /\ forensic_results.tampered_regions_count = 1
    /\ forensic_results.forensic_score = 4500
    /\ forensic_results.forensic_verdict = "LIKELY ORIGINAL"

\* C20: the forensic score is min(1, 0.3 * min(2, regions)) + 0.2 for more
\* than 10 copy-move matches + 0.15 for a hot ratio above 0.02, capped at 1;
\* exactly 10 matches and a ratio of exactly 0.02 add nothing.
C20_ScoreFormula ==
    ForensicDone =>
        LET m == forensic_results
            regions == Min(10000, 3000 * Min(2, m.tampered_regions_count))
            copies == IF m.copy_move_matches > 10 THEN 2000 ELSE 0
            hot == IF m.ela_hot_pixels_ratio > 20 THEN 1500 ELSE 0
        IN  /\ m.forensic_score = Min(10000, regions + copies + hot)
            /\ (m.copy_move_matches = 10 /\ m.ela_hot_pixels_ratio = 20)
                   => m.forensic_score = regions

\* C20 witness: three regions with exactly 10 matches and a ratio of exactly
\* 0.02 score 0.6.
C20_Witness ==
    /\ ForensicDone
    /\ forensic_results.tampered_regions_count = 3
    /\ forensic_results.copy_move_matches = 10
    /\ forensic_results.ela_hot_pixels_ratio = 20
    /\ forensic_results.forensic_score = 6000

\* C14: every region returned has at least 80 pixels, a bounding box inside
\* the 5-pixel margin (x >= 5, y >= 5, x + width <= W - 5, y + height <= H - 5),
\* at most 15% of the page's pixels and a confidence in [0.7, 1.0].
C14_RegionsWithinLimits ==
    \A i \in 1..Len(tampered_regions.regions) :
        LET r == tampered_regions.regions[i] IN
        /\ r.area >= 80
        /\ r.x >= 5
        /\ r.y >= 5
        /\ r.x + r.width <= noise_map.img_w - 5
        /\ r.y + r.height <= noise_map.img_h - 5
        /\ 100 * r.area <= 15 * noise_map.img_w * noise_map.img_h
        /\ r.confidence >= 7000
        /\ r.confidence <= 10000

\* C14 witness: a returned region of exactly 80 pixels that starts 5 pixels
\* from the left border and ends 5 pixels from the bottom border, next to a
\* second region whose confidence is the floor of 0.7.
C14_Witness ==
    /\ Len(tampered_regions.regions) = 2
    /\ \E i \in 1..2 :
           LET r == tampered_regions.regions[i] IN
           /\ r.area = 80
           /\ r.x = 5
           /\ r.y + r.height = noise_map.img_h - 5
    /\ \E i \in 1..2 : tampered_regions.regions[i].confidence = 7000

\* C15: every verdict has a combined score in [0,1], for every forensic score
\* in [0,1] and every confidence 0..100, on the agree-tampered, the
\* agree-clean and the disagree branch.
C15_CombinedScoreInUnit ==
    \A i \in Pages :
        LET r == results[i]
            c == DictGet(r.llm_analysis, "confidence_score", JInt(0))
        IN  (r.forensic_analysis.forensic_score \in 0..10000
             /\ c.t = "int" /\ c.v \in 0..100)
            => /\ r.integrated_verdict.combined_score >= 0
               /\ r.integrated_verdict.combined_score <= 10000
               /\ r.integrated_verdict.agreement \in {"AGREE", "DISAGREE"}

\* C15 witness: forensic score 1.0 fused with {tamperingDetected: true,
\* confidence 100} agrees on tampering with combined score 1.0.
C15_Witness ==
    /\ Len(results) = 1
    /\ results[1].forensic_analysis.forensic_score = 10000
    /\ results[1].llm_analysis.confidence_score = JInt(100)
    /\ results[1].integrated_verdict.agreement = "AGREE"
    /\ results[1].integrated_verdict.llm_verdict = "TAMPERED"
    /\ results[1].integrated_verdict.combined_score = 10000

C16_Before(k, step) == \E j \in 1..(k - 1) : steps[j] = step

\* C16: in every run, a page's assessor call is issued only after that page's
\* forensic analysis has completed, its verdict is created only after both
\* its forensic result and its assessment exist, and the summary is created
\* only after every page has a verdict.
C16_StepsInOrder ==
    /\ \A k \in 1..Len(steps) :
           LET page == steps[k][2] IN
           /\ steps[k][1] = "assessor" => C16_Before(k, <<"forensic", page>>)
           /\ steps[k][1] = "verdict"
                  => /\ C16_Before(k, <<"forensic", page>>)
                     /\ C16_Before(k, <<"assessor", page>>)
           /\ steps[k][1] = "summary"
                  => \A p \in 1..Len(image_paths) : C16_Before(k, <<"verdict", p>>)
    /\ \A i \in Pages : \E k \in 1..Len(steps) : steps[k] = <<"verdict", results[i].page>>
    /\ Reported => \E k \in 1..Len(steps) : steps[k][1] = "summary"

\* C16 witness: a finished report of two pages, made in seven steps.
C16_Witness ==
    /\ Reported
    /\ Len(image_paths) = 2
    /\ steps = << <<"forensic", 1>>, <<"assessor", 1>>, <<"verdict", 1>>,
                  <<"forensic", 2>>, <<"assessor", 2>>, <<"verdict", 2>>,
                  <<"summary", 0>> >>

\* C17: the diagnostic images of two different pages never go to the same
\* path: the images named in a page's forensic result are never overwritten
\* by those of another page, of the same or of another document.
C17_ImagesNeverOverwritten ==
    \A j \in JobIds :
        (threads[j].at \in {"llm", "ended"} /\ threads[j].forensic_outdir >= 0)
        => forensic_dir[threads[j].forensic_outdir] = <<j, threads[j].page>>

\* C18: the raster of a page stays as it was produced until the page's
\* analysis completes, also with several jobs at once: each time an analysis
\* opens its page image it finds its own document's page.
C18_RasterNeverReplaced ==
    \A j \in JobIds :
        /\ (threads[j].is_pdf /\ threads[j].at \in {"outdir", "open", "write"})
               => temp_dir[threads[j].page] = j
        /\ threads[j].opened \in {NoFile, j}
        /\ threads[j].reopened \in {NoFile, j}

\* C19: analysing the same raster twice gives the same score, label, regions,
\* match count, noise threshold and mean and scan classification, whichever
\* rasters the same analyzer analysed before or in between.
C19_SameRasterSameResult ==
    \A i \in 1..Len(analyses), j \in 1..Len(analyses) :
        analyses[i].raster = analyses[j].raster
            => analyses[i].result = analyses[j].result

\* C19 witness: a raster with a region of 80 pixels, not classified as
\* scanned, is analysed first and third; the raster analysed in between is
\* classified as scanned and has set the instance's flag.
C19_Witness ==
    /\ Len(analyses) = 3
    /\ analyses[1].raster = analyses[3].raster
    /\ analyses[2].raster # analyses[1].raster
    /\ ~analyses[1].result.scan_info.is_scanned
    /\ analyses[2].result.scan_info.is_scanned
    /\ is_scanned_document
    /\ Len(analyses[3].result.tampered_regions) = 1
    /\ analyses[3].result.tampered_regions[1].area = 80

\* the component c is among the regions returned
C21_Returned(c) ==
    \E i \in 1..Len(tampered_regions.regions) :
        LET r == tampered_regions.regions[i] IN
        /\ r.x = c.x /\ r.y = c.y /\ r.width = c.w /\ r.height = c.h
        /\ r.area = c.pixel_count /\ r.intensity = c.region_mean

\* C21: a component of the noise map is returned as a tampered region if and
\* only if it has at least 80 pixels, its bounding box leaves 5 pixels to
\* every border, it has at most 15% of the page's pixels, and its mean is at
\* least 17 times the map's mean, or at least 12 times with 500 pixels or
\* more.
C21_RegionIffLimits ==
    tampered_regions # NotExtracted =>
        \A k \in 1..Len(noise_map.components) :
            LET c == noise_map.components[k] IN
            C21_Returned(c) <=>
                /\ c.pixel_count >= 80
                /\ c.x >= 5
                /\ c.y >= 5
                /\ c.x + c.w <= noise_map.img_w - 5
                /\ c.y + c.h <= noise_map.img_h - 5
                /\ 100 * c.pixel_count <= 15 * noise_map.img_w * noise_map.img_h
                /\ \/ c.region_mean >= 17 * noise_map.global_mean
                   \/ /\ c.region_mean >= 12 * noise_map.global_mean
                      /\ c.pixel_count >= 500

\* what C22 says of a verdict v at forensic score fs and confidence c (in
\* 1/10000): AGREE, combinedScore = 0.5*(0.5*fs + 0.5*(1 - c)), and
\* POSSIBLE TAMPERING - REQUIRES REVIEW / MEDIUM exactly when
\* combinedScore > 0.35, NO SIGNIFICANT TAMPERING DETECTED / LOW otherwise
C22_AgreeClean(v, fs, c) ==
    /\ v.agreement = "AGREE"
    /\ 4 * v.combined_score = fs + (10000 - c)
    /\ IF v.combined_score > 3500
       THEN v.verdict = "POSSIBLE TAMPERING - REQUIRES REVIEW" /\ v.risk_level = "MEDIUM"
       ELSE v.verdict = NoSignificant /\ v.risk_level = "LOW"

\* C22 as stated: whenever forensicScore <= 0.45 and the assessor does not
\* say tampered (not: tamperingDetected = true and confidence/100 > 0.5),
\* the verdict is AGREE with combinedScore = 0.5*(0.5*forensicScore +
\* 0.5*(1 - confidenceScore/100)), labelled POSSIBLE TAMPERING - REQUIRES
\* REVIEW / MEDIUM exactly when combinedScore > 0.35 and NO SIGNIFICANT
\* TAMPERING DETECTED / LOW otherwise.
C22_BothCleanAgree ==
    \A i \in Pages :
        LET r == results[i]
            fs == r.forensic_analysis.forensic_score
        IN  (WellTyped(r.llm_analysis)
             /\ fs <= 4500
             /\ ~AssessorSaysTampered(r.llm_analysis))
            => C22_AgreeClean(r.integrated_verdict, fs,
                              r.llm_analysis.confidence_score.v * 100)

\* C22 amended: the same, when tamperingDetected is false, or true with a
\* confidence of at most 50; with tamperingDetected null the verdict at a
\* forensic score <= 0.45 is DISAGREE and INCONCLUSIVE - REQUIRES MANUAL
\* REVIEW.
C22_BothCleanAgreeUnlessNull ==
    \A i \in Pages :
        LET r == results[i]
            fs == r.forensic_analysis.forensic_score
            v == r.integrated_verdict
        IN  (WellTyped(r.llm_analysis) /\ fs <= 4500)
            => /\ (r.llm_analysis.tampering_detected.t = "bool"
                   /\ ~AssessorSaysTampered(r.llm_analysis))
                  => C22_AgreeClean(v, fs, r.llm_analysis.confidence_score.v * 100)
               /\ r.llm_analysis.tampering_detected = JNull
                  => v.agreement = "DISAGREE" /\ v.verdict = Inconclusive

\* C22 witness: score 0.45 fused with {tamperingDetected: false, confidence
\* 5}: AGREE at exactly 0.35, still NO SIGNIFICANT TAMPERING DETECTED.
C22_Witness ==
    /\ Len(results) = 1
    /\ results[1].forensic_analysis.forensic_score = 4500
    /\ results[1].llm_analysis.tampering_detected = JBool(FALSE)
    /\ results[1].llm_analysis.confidence_score = JInt(5)
    /\ results[1].integrated_verdict.agreement = "AGREE"
    /\ results[1].integrated_verdict.combined_score = 3500
    /\ results[1].integrated_verdict.verdict = NoSignificant

\* the points of a raster when the limits 5, 30 and 10 are included
C23_PointsInclusive(raster) ==
    (IF 5 <= raster.noise_std /\ raster.noise_std <= 30 THEN 1 ELSE 0)
    + (IF raster.lines >= 10 THEN 1 ELSE 0)
    + (IF raster.white_ratio > 30 THEN 1 ELSE 0)

\* the points of a raster when the limits 5, 30 and 10 are excluded
C23_PointsExclusive(raster) ==
    (IF 5 < raster.noise_std /\ raster.noise_std < 30 THEN 1 ELSE 0)
    + (IF raster.lines > 10 THEN 1 ELSE 0)
    + (IF raster.white_ratio > 30 THEN 1 ELSE 0)

\* the number of reasons a scan classification gives
C23_Reasons(scan_info) ==
    Cardinality({ k \in 1..3 : scan_info.reasons[k] })

\* C23 as stated: the scan classification gives one point for a noise
\* standard deviation in [5,30] (5 and 30 included), one for at least 10 line
\* segments (10 included) and one for a bright fraction > 0.3; confidence =
\* points/3 and isScanned exactly when points >= 2.
C23_ScanPointsInclusive ==
    \A k \in 1..Len(analyses) :
        LET scan_info == analyses[k].result.scan_info
            points == C23_PointsInclusive(analyses[k].raster)
        IN  /\ C23_Reasons(scan_info) = points
            /\ scan_info.confidence = (points * 10000) \div 3
            /\ scan_info.is_scanned <=> points >= 2

\* C23 amended: one point for a noise standard deviation strictly between 5
\* and 30, one for more than 10 line segments and one for a bright fraction
\* > 0.3; confidence = points/3 and isScanned exactly when points >= 2.
C23_ScanPointsExclusive ==
    \A k \in 1..Len(analyses) :
        LET scan_info == analyses[k].result.scan_info
            points == C23_PointsExclusive(analyses[k].raster)
        IN  /\ C23_Reasons(scan_info) = points
            /\ scan_info.confidence = (points * 10000) \div 3
            /\ scan_info.is_scanned <=> points >= 2

\* C23 witness: a raster with noise 30, 10 segments and a bright fraction of
\* 0.31 has one point and is not scanned; one with noise 6, 11 segments and
\* 0.30 has two points and is scanned.
C23_Witness ==
    /\ \E k \in 1..Len(analyses) :
           /\ analyses[k].raster.noise_std = 30
           /\ analyses[k].raster.lines = 10
           /\ analyses[k].raster.white_ratio = 31
           /\ analyses[k].result.scan_info.confidence = 3333
           /\ ~analyses[k].result.scan_info.is_scanned
    /\ \E k \in 1..Len(analyses) :
           /\ analyses[k].raster.noise_std = 6
           /\ analyses[k].raster.lines = 11
           /\ analyses[k].raster.white_ratio = 30
           /\ analyses[k].result.scan_info.confidence = 6666
           /\ analyses[k].result.scan_info.is_scanned

\* the match pair p is among the copy-move candidates returned, with
\* confidence 1 - distance/256
C24_Candidate(p) ==
    \E i \in 1..Len(suspicious_regions) :
        /\ suspicious_regions[i].point1 = p.pt1
        /\ suspicious_regions[i].point2 = p.pt2
        /\ suspicious_regions[i].confidence = 256 - p.m_distance

C25_LabelFromRegions ==
    ForensicDone =>
        LET m == forensic_results IN
        /\ m.forensic_verdict = "LIKELY TAMPERED"
               <=> \/ m.tampered_regions_count >= 2
                   \/ m.tampered_regions_count = 1 /\ m.copy_move_matches > 10
        /\ m.tampered_regions_count = 0
               => m.forensic_score <= 4500 /\ m.forensic_verdict = "LIKELY ORIGINAL"
        /\ m.forensic_score <= 9500

\* C25 witness: three regions with 11 matches and a hot ratio of 0.021 score
\* 0.95 and are LIKELY TAMPERED.
C25_Witness ==
    /\ ForensicDone
    /\ forensic_results.tampered_regions_count = 3
    /\ forensic_results.copy_move_matches = 11
    /\ forensic_results.ela_hot_pixels_ratio = 21
    /\ forensic_results.forensic_score = 9500
    /\ forensic_results.forensic_verdict = "LIKELY TAMPERED"

\* the forensic scores lines 518-541 can produce
C26_Produced ==
    { forensic_score_of(m[1], m[2], m[3]) : m \in ForensicMetrics }

\* C26: when every page's forensic score is one the analyzer can produce and
\* some page is labelled LIKELY TAMPERED or TAMPERING DETECTED - HIGH
\* CONFIDENCE, the summary has tamperingDetected = true and a status text
\* other than NO TAMPERING DETECTED.
C26_TamperedPageIsReported ==
    (/\ Reported
     /\ \A i \in Pages : results[i].forensic_analysis.forensic_score \in C26_Produced
     /\ \E i \in Pages :
            results[i].integrated_verdict.verdict
                \in {"LIKELY TAMPERED", "TAMPERING DETECTED - HIGH CONFIDENCE"})
    => /\ final_report.summary.tampering_detected
       /\ final_report.summary.status_text # "NO TAMPERING DETECTED"

\* C26 witness: the lowest tampered agreement, forensic score 0.5 with
\* {tamperingDetected: true, confidence 51}: combined score 0.505, LIKELY
\* TAMPERED, reported as TAMPERING DETECTED.
C26_Witness ==
    /\ Reported
    /\ Len(results) = 1
    /\ results[1].forensic_analysis.forensic_score = 5000
    /\ results[1].llm_analysis.tampering_detected = JBool(TRUE)
    /\ results[1].llm_analysis.confidence_score = JInt(51)
    /\ results[1].integrated_verdict.combined_score = 5050
    /\ results[1].integrated_verdict.verdict = "LIKELY TAMPERED"
    /\ final_report.summary.status_text = "TAMPERING DETECTED"

\* C27 as stated: a summary with the status text NO TAMPERING DETECTED has
\* tamperingDetected = false, every page labelled NO SIGNIFICANT TAMPERING
\* DETECTED and the highest risk LOW.
C27_CleanSummaryAllClean ==
    (Reported /\ final_report.summary.status_text = "NO TAMPERING DETECTED")
    => /\ ~final_report.summary.tampering_detected
       /\ \A i \in Pages : results[i].integrated_verdict.verdict = NoSignificant
       /\ final_report.summary.highest_risk_level = "LOW"

\* C27 amended: a summary with the status text NO TAMPERING DETECTED has
\* tamperingDetected = false, no page INCONCLUSIVE, LIKELY TAMPERED or
\* TAMPERING DETECTED - HIGH CONFIDENCE, every page with a combined score of
\* at most 0.5 and labelled NO SIGNIFICANT TAMPERING DETECTED or POSSIBLE
\* TAMPERING - REQUIRES REVIEW, and the highest risk LOW or MEDIUM (MEDIUM
\* exactly when some page is labelled for review).
C27_CleanSummaryNoneTampered ==
    (Reported /\ final_report.summary.status_text = "NO TAMPERING DETECTED")
    => /\ ~final_report.summary.tampering_detected
       /\ \A i \in Pages :
              /\ results[i].integrated_verdict.combined_score <= 5000
              /\ results[i].integrated_verdict.verdict
                     \in {NoSignificant, "POSSIBLE TAMPERING - REQUIRES REVIEW"}
       /\ final_report.summary.highest_risk_level =
              (IF \E i \in Pages : results[i].integrated_verdict.verdict
                                       = "POSSIBLE TAMPERING - REQUIRES REVIEW"
               THEN "MEDIUM" ELSE "LOW")

\* C27 witness: a two-page report NO TAMPERING DETECTED whose second page, at
\* forensic score 0.45 with {tamperingDetected: false, confidence 0}, is
\* labelled POSSIBLE TAMPERING - REQUIRES REVIEW with risk MEDIUM.
C27_Witness ==
    /\ Reported
    /\ Len(results) = 2
    /\ final_report.summary.status_text = "NO TAMPERING DETECTED"
    /\ results[1].integrated_verdict.verdict = NoSignificant
    /\ results[2].forensic_analysis.forensic_score = 4500
    /\ results[2].integrated_verdict.verdict = "POSSIBLE TAMPERING - REQUIRES REVIEW"
    /\ final_report.summary.highest_risk_level = "MEDIUM"

\* C28: analyze_with_llm_reasoning never raises: once the page's forensic
\* result is there the call returns the parsed reply or the null assessment
\* {error, tampering_detected: None, confidence_score: 0}, also when
\* building the request fails.
C28_AssessorNeverRaises ==
    /\ raised # "TypeError: unexpected keyword argument"
    /\ pc = "combine"
           => llm_results \in { llm_call_result(outcome) : outcome \in LlmOutcomes }

\* C29: on a page whose noise map has a global mean above 255/12 = 21.25 no
\* tampered region is accepted, the forensic score is at most 0.35 and the
\* forensic label is LIKELY ORIGINAL.
C29_NoRegionAboveMean ==
    \A k \in 1..Len(analyses) :
        LET r == analyses[k].result IN
        analyses[k].raster.noise.global_mean > 2125
            => /\ r.tampered_regions = <<>>
               /\ r.forensic_metrics.tampered_regions_count = 0
               /\ r.forensic_score <= 3500
               /\ r.forensic_verdict = "LIKELY ORIGINAL"

\* C29 witness: a component of 500 pixels at 255 is dropped at a global mean
\* of 21.26, and the same component is a region at a global mean of 21.24.
C29_Witness ==
    /\ \E k \in 1..Len(analyses) :
           /\ analyses[k].raster.noise.global_mean = 2126
           /\ Len(analyses[k].raster.noise.components) = 1
           /\ analyses[k].raster.noise.components[1].region_mean = 25500
           /\ analyses[k].result.tampered_regions = <<>>
           /\ analyses[k].result.forensic_score = 3500
    /\ \E k \in 1..Len(analyses) :
           /\ analyses[k].raster.noise.global_mean = 2124
           /\ Len(analyses[k].result.tampered_regions) = 1

\* C30: the job moves only pending -> processing -> completed or failed and
\* never leaves completed or failed; a poll that reports completed also
\* reports a result, progress 100 and a completion time; a poll that reports
\* failed also reports an error and no result; and once the worker has ended
\* the job on disk equals the job in memory.
C30_JobLifecycle ==
    [][ /\ job'.status # job.status
            => <<job.status, job'.status>>
                   \in { <<"pending", "processing">>, <<"processing", "completed">>,
                         <<"processing", "failed">> }
        /\ response'.status = "completed"
            => /\ response'.progress = 100
               /\ response'.completed_at # 0
               /\ response'.done => response'.result # NoJobResult
        /\ response'.status = "failed"
            => /\ response'.error # ""
               /\ response'.done => response'.result = NoJobResult
        /\ worker' = "ended" => saved' = job'
      ]_vars

====
